---- MODULE Spec2Model ----
(***************************************************************************)
(* A model of the warabi Provider (src/src/ProviderImpl.hpp): the target   *)
(* registry, the transfer-manager registry, the fifteen RPC handlers and   *)
(* the source- and destination-side drivers of a target migration.         *)
(*                                                                         *)
(* Two providers are modelled; each owns m_targets and                     *)
(* m_transfer_managers.  Backends are heap objects shared by reference     *)
(* (std::shared_ptr): the registry and every handler that captured an      *)
(* entry hold a reference, and an object is released when the last         *)
(* reference goes away.                                                    *)
(***************************************************************************)
EXTENDS Integers, Sequences, FiniteSets, TLC

\* ---------------------------------------------------------------- bounds

\* UUID::generate() is called at most MaxUUID times in a behaviour.
MaxUUID == 2

\* Number of targets add_target creates in a behaviour of the lifecycle and
\* of the data-plane specification.
MaxCreated == 1

\* Number of handler tasks that can be suspended inside a handler at once.
NTasks == 2

\* Number of migrate_target handlers that can run at the same time.
MaxMigrations == 1

\* Number of data-plane handlers that can run at the same time.
MaxDataHandlers == 1

\* Number of region identifiers a backend can mint.
MaxRegions == 1

\* Width of size_t in bits (64 in the build; sizes, offsets and payloads
\* are scaled down with it).
SizeBits == 2

\* ------------------------------------------------------------- constants

\* The default-constructed UUID (all zero), never returned by generate().
NilUUID == 0

Providers == {"P1", "P2"}
UUIDs == 1..MaxUUID
Tasks == 1..NTasks
RegionIDs == 1..MaxRegions

DefaultTM == "__default__"
TMNames == {DefaultTM, "tmA"}
TMTypes == {DefaultTM, "pipeline", "blabla"}
TargetTypes == {"memory", "blabla"}

\* Addresses given to engine.lookup(): a provider's own address, or one
\* that cannot be resolved.
BadAddress == "bad-address"

\* ------------------------------------------------------------------ JSON

\* A JSON object is a function from its keys to string values.
EmptyJSON == [k \in {} |-> ""]

\* The configuration strings requests are built from, and what
\* nlohmann::json::parse makes of each (ok = FALSE: json::parse_error).
ConfigStrings == {"{[", "{}", "{\"transfer_manager\":\"tmA\"}", "{\"invalid\":\"1\"}"}

\* What json::dump makes of an object that binds the default manager by
\* name (getConfig writes the bound name into every target's config).
DefaultTMConfig == "{\"transfer_manager\":\"__default__\"}"

JsonParse(s) ==
    CASE s = "{}" -> [ok |-> TRUE, value |-> EmptyJSON]
      [] s = "{\"transfer_manager\":\"tmA\"}" ->
            [ok |-> TRUE, value |-> [k \in {"transfer_manager"} |-> "tmA"]]
      [] s = "{\"invalid\":\"1\"}" ->
            [ok |-> TRUE, value |-> [k \in {"invalid"} |-> "1"]]
      [] s = DefaultTMConfig ->
            [ok |-> TRUE, value |-> [k \in {"transfer_manager"} |-> DefaultTM]]
      [] s = "[]" -> [ok |-> TRUE, value |-> EmptyJSON]
      [] OTHER -> [ok |-> FALSE, value |-> EmptyJSON]

\* json::is_object() of what json::parse makes of s: "[]" is valid JSON,
\* and an array.
JsonIsObject(s) == JsonParse(s).ok /\ s # "[]"

\* json::dump of the objects above (the inverse of JsonParse on them).
JsonDump(j) ==
    IF "invalid" \in DOMAIN j THEN "{\"invalid\":\"1\"}"
    ELSE IF "transfer_manager" \in DOMAIN j
         THEN IF j["transfer_manager"] = DefaultTM THEN DefaultTMConfig
              ELSE "{\"transfer_manager\":\"tmA\"}"
    ELSE "{}"

\* json::value(key, default)
JsonValue(j, key, default) == IF key \in DOMAIN j THEN j[key] ELSE default

\* json::update(other, true): the keys of other overwrite those of j.
JsonUpdate(j, other) ==
    [k \in DOMAIN j \cup DOMAIN other |-> IF k \in DOMAIN other THEN other[k] ELSE j[k]]

\* --------------------------------------------------------------- results

\* Result<T>: success() is true and error() empty unless a handler says
\* otherwise.
\* val is the UUID or RegionID of a Result<UUID> or Result<RegionID>, data
\* the bytes of a Result<BufferWrapper>.
Ok == [ok |-> TRUE, err |-> "", val |-> 0, data |-> <<>>]
OkVal(v) == [ok |-> TRUE, err |-> "", val |-> v, data |-> <<>>]
OkData(buffer) == [ok |-> TRUE, err |-> "", val |-> 0, data |-> buffer]
Err(e) == [ok |-> FALSE, err |-> e, val |-> 0, data |-> <<>>]

ErrNotFound == "target not found"
ErrRegion == "region not found"
ErrConfig == "bad configuration"
ErrBackend == "backend error"
ErrTransfer == "transfer error"
ErrRemi == "remi error"
ErrLookup == "address lookup failed"
ErrNoTM == "transfer manager not found"
ErrTMExists == "transfer manager exists"
ErrStatus == "migration failed with status"

VARIABLES
    targets,    \* m_targets of each provider: UUID -> TargetEntry
    tms,        \* m_transfer_managers of each provider: name -> type
    objs,       \* the Backend objects on the heap
    tasks,      \* the handlers suspended between two steps
    nextUUID,   \* the next UUID generate() returns
    resp,       \* the response most recently sent to a client
    destroyed   \* per provider: the UUIDs destroy_target has answered success for

vars == <<targets, tms, objs, tasks, nextUUID, resp, destroyed>>

\* ------------------------------------------------------- state and types

\* The heap of Backend objects.  The backend the registry of provider p
\* holds for UUID u lives at Cell(p, u); a backend the registry has let go
\* of while handlers still hold it lives at one of the Held addresses until
\* the last of them leaves.
Cell(p, u) == <<p, u>>
Held(k) == <<"held", k>>
Null == <<"", 0>>
Heap == (Providers \X UUIDs) \cup ({"held"} \X Tasks)

\* An address of the heap that holds no Backend.
FreeObj ==
    [st |-> "free", type |-> "", cfg |-> EmptyJSON, locked |-> FALSE,
     storage |-> FALSE, regions |-> [r \in RegionIDs |-> "none"],
     bytes |-> [r \in RegionIDs |-> <<>>]]

\* A Backend right after TargetFactory::createTarget.
NewBackend(type, json) ==
    [st |-> "live", type |-> type, cfg |-> json, locked |-> FALSE,
     storage |-> TRUE, regions |-> [r \in RegionIDs |-> "none"],
     bytes |-> [r \in RegionIDs |-> <<>>]]

\* struct TargetEntry: the backend, and the name of its transfer manager
\* (the manager instance is the one registered under that name: managers
\* are never removed or replaced).
TargetEntry(o, tm_name) == [obj |-> o, tm |-> tm_name]

\* The arguments of a data-plane request besides the target and the
\* region: the size of createRPC, regionOffsetSizes (pairs of offset and
\* size), and the bytes of the BufferWrapper.
RequestArgs(size, spans, buffer) == [size |-> size, spans |-> spans, data |-> buffer]

NoArgs == RequestArgs(0, <<>>, <<>>)

\* A task slot in which no handler is suspended.  held: the registry
\* mutexes the task holds when it is suspended.
IdleTask ==
    [op |-> "none", pc |-> "idle", p |-> "", u |-> NilUUID, obj |-> Null, tm |-> "",
     rid |-> 0, res |-> Ok, dest |-> "", rm |-> FALSE, extra |-> "",
     rret |-> "REMI_SUCCESS", args |-> NoArgs, held |-> {}]

NoResponse == [op |-> "none", res |-> Ok, n |-> 0, done |-> FALSE]

\* The map with key k removed (unordered_map::erase).
MapErase(m, k) == [x \in DOMAIN m \ {k} |-> m[x]]

\* The map with key k set to v (unordered_map::operator[] assignment).
MapPut(m, k, v) == [x \in DOMAIN m \cup {k} |-> IF x = k THEN v ELSE m[x]]

EmptyMap == [x \in {} |-> 0]

\* The tasks that hold a reference to the backend at address a.
Holders(tk, a) == {h \in Tasks : tk[h].obj = a}

\* std::shared_ptr<Backend>, when a handler lets go of its reference: a
\* backend that no registry and no handler refers to any more is deleted.
Release(ob, tk) ==
    [a \in Heap |-> IF a[1] = "held" /\ Holders(tk, a) = {} THEN FreeObj ELSE ob[a]]

\* A registry that deletes the backend at cell c whoever holds it.
VacateDeleting(ob, tk, c) == [objs |-> [ob EXCEPT ![c] = FreeObj], tasks |-> tk]

\* std::shared_ptr<Backend>, when the registry lets go of the backend at
\* cell c: the backend is deleted unless handlers hold it, and then it
\* stays (at a Held address) for them.  The heap and the tasks afterwards.
Vacate(ob, tk, c) ==
    IF Holders(tk, c) = {}
    THEN [objs |-> [ob EXCEPT ![c] = FreeObj], tasks |-> tk]
    ELSE LET free == {k \in Tasks : ob[Held(k)].st = "free"}
             k == CHOOSE x \in free : \A y \in free : x <= y
         IN [objs |-> [ob EXCEPT ![c] = FreeObj, ![Held(k)] = ob[c]],
             tasks |-> [h \in Tasks |->
                          IF tk[h].obj = c THEN [tk[h] EXCEPT !.obj = Held(k)] ELSE tk[h]]]

\* AutoResponse: its destructor calls req.respond(resp) once, on every way
\* out of the handler.  done tells whether the handler ran to its last
\* statement and carried its operation out, op which handler it is (neither
\* is part of the message).
AutoResponse(op, result, done) == [op |-> op, res |-> result, n |-> 1, done |-> done]

\* The response of a handler that returns, early or at its end.
Return(op, result) == AutoResponse(op, result, result.ok)

\* An exception that leaves the handler without running the destructor.
UnwindSilent(op, result) == [op |-> op, res |-> result, n |-> 0, done |-> FALSE]

\* The response of a handler that an exception unwinds: the destructor
\* sends the result as it is at that point.
Unwind(op, result) == AutoResponse(op, result, FALSE)

\* A handler that suspends takes a slot nobody is suspended in; which one
\* is immaterial: a migration takes the first, a data-plane handler the
\* last.
FirstIdle(h) ==
    /\ tasks[h].pc = "idle"
    /\ \A k \in Tasks : k < h => tasks[k].pc # "idle"

LastIdle(h) ==
    /\ tasks[h].pc = "idle"
    /\ \A k \in Tasks : k > h => tasks[k].pc # "idle"

\* FIND_TARGET: is target_id in m_targets?
FindTarget(p, u) == u \in DOMAIN targets[p]

\* The result as the handler declares it, left untouched by FIND_TARGET.
TargetNotFoundUnset == Ok

\* FIND_TARGET, when it is not: the result the handler returns with.
TargetNotFound == Err(ErrNotFound)

\* --------------------------------------------------------------- factories

\* TargetFactory::validateConfig: the type must be registered and the
\* backend must accept the configuration.
ValidateTargetConfig(type, json) ==
    type = "memory" /\ "invalid" \notin DOMAIN json

\* TransferManagerFactory::validateConfig
ValidateTransferManagerConfig(type, json) ==
    type \in {DefaultTM, "pipeline"} /\ "invalid" \notin DOMAIN json

\* A generator that hands the UUID it handed last out again.
UUIDGenerateAgain == IF nextUUID > 1 THEN nextUUID - 1 ELSE nextUUID

\* UUID::generate(): a UUID no target has had before.
UUIDGenerate == nextUUID

\* ------------------------------------------------------------------- init

\* Two providers constructed without configuration: no target, and the
\* transfer manager __default__ of type __default__.
Init ==
    /\ targets = [p \in Providers |-> EmptyMap]
    /\ tms = [p \in Providers |-> [n \in {DefaultTM} |-> DefaultTM]]
    /\ objs = [a \in Heap |-> FreeObj]
    /\ tasks = [h \in Tasks |-> IdleTask]
    /\ nextUUID = 1
    /\ resp = NoResponse
    /\ destroyed = [p \in Providers |-> {}]

\* ------------------------------------------------------------ admin plane

\* addTarget without the parse error handling and the call of
\* validateTargetConfig.
AddTargetOutcomeUnvalidated(p, type, config, created) ==
    IF ~created THEN "create_failed"
    ELSE IF JsonValue(JsonParse(config).value, "transfer_manager", DefaultTM) \notin DOMAIN tms[p]
         THEN "no_transfer_manager"
    ELSE "added"

\* Where addTarget(type, string) and addTarget(type, json) leave, given
\* m_transfer_managers and whether TargetFactory::createTarget succeeds.
AddTarget(transfer_managers, type, config, created) ==
    LET parsed == JsonParse(config) IN
    IF ~parsed.ok THEN "parse_error"
    ELSE IF ~ValidateTargetConfig(type, parsed.value) THEN "invalid"
    ELSE IF ~created THEN "create_failed"
    ELSE IF JsonValue(parsed.value, "transfer_manager", DefaultTM) \notin DOMAIN transfer_managers
         THEN "no_transfer_manager"
    ELSE "added"

\* addTarget as addTargetRPC of provider p calls it.
AddTargetOutcome(p, type, config, created) == AddTarget(tms[p], type, config, created)

AddTargetError(outcome) ==
    CASE outcome = "parse_error" -> ErrConfig
      [] outcome = "invalid" -> ErrConfig
      [] outcome = "create_failed" -> ErrBackend
      [] outcome = "no_transfer_manager" -> ErrNoTM

\* addTargetRPC
AddTargetRPC(p, type, config) ==
    \E created \in BOOLEAN :
      LET outcome == AddTargetOutcome(p, type, config, created)
          json == JsonParse(config).value
          target_id == UUIDGenerate
          tm_name == JsonValue(json, "transfer_manager", DefaultTM)
      IN IF outcome = "added"
         THEN /\ nextUUID <= MaxUUID
              /\ targets' = [targets EXCEPT ![p] =
                                MapPut(@, target_id, TargetEntry(Cell(p, target_id), tm_name))]
              /\ objs' = [objs EXCEPT ![Cell(p, target_id)] = NewBackend(type, json)]
              /\ nextUUID' = nextUUID + 1
              /\ resp' = Return("add_target", OkVal(target_id))
              /\ UNCHANGED <<tms, tasks, destroyed>>
         ELSE /\ resp' = Return("add_target", Err(AddTargetError(outcome)))
              /\ UNCHANGED <<targets, tms, objs, tasks, nextUUID, destroyed>>

\* m_targets with the erase left out.
EraseTargetSkipped(p, u) == targets

\* m_targets after removeTargetRPC / destroyTargetRPC found target_id.
EraseTarget(p, u) == [targets EXCEPT ![p] = MapErase(@, u)]

\* Backend::destroy(): frees the persistent state of the target.
BackendDestroy(b) == [b EXCEPT !.storage = FALSE]

\* removeTargetRPC with a call of the backend's destroy() before the erase.
RemoveTargetDestroying(p, u) ==
    IF ~FindTarget(p, u)
    THEN /\ resp' = Return("remove_target", Err(ErrNotFound))
         /\ UNCHANGED <<targets, tms, objs, tasks, nextUUID, destroyed>>
    ELSE LET o == targets[p][u].obj
             ob == [objs EXCEPT ![o] = BackendDestroy(@)]
         IN /\ targets' = EraseTarget(p, u)
            /\ objs' = Vacate(ob, tasks, o).objs
            /\ tasks' = Vacate(ob, tasks, o).tasks
            /\ resp' = Return("remove_target", Ok)
            /\ UNCHANGED <<tms, nextUUID, destroyed>>

\* removeTargetRPC
RemoveTargetRPC(p, u) ==
    IF ~FindTarget(p, u)
    THEN /\ resp' = Return("remove_target", Err(ErrNotFound))
         /\ UNCHANGED <<targets, tms, objs, tasks, nextUUID, destroyed>>
    ELSE /\ targets' = EraseTarget(p, u)
         /\ objs' = Vacate(objs, tasks, targets[p][u].obj).objs
         /\ tasks' = Vacate(objs, tasks, targets[p][u].obj).tasks
         /\ resp' = Return("remove_target", Ok)
         /\ UNCHANGED <<tms, nextUUID, destroyed>>

\* The result as the handler declares it, left untouched.
DestroyNotFoundUnset == Ok

\* What destroyTargetRPC answers on an unknown target_id.
DestroyNotFound == Err(ErrNotFound)

\* destroyTargetRPC keeping the entry of a target whose destroy() failed.
DestroyTargetUnlessFailed(p, u) ==
    IF ~FindTarget(p, u)
    THEN /\ resp' = Return("destroy_target", DestroyNotFound)
         /\ UNCHANGED <<targets, tms, objs, tasks, nextUUID>>
    ELSE LET o == targets[p][u].obj IN
         /\ ~objs[o].locked
         /\ \E done \in BOOLEAN :
              IF done
              THEN LET ob == [objs EXCEPT ![o] = BackendDestroy(@)] IN
                   /\ targets' = EraseTarget(p, u)
                   /\ objs' = Vacate(ob, tasks, o).objs
                   /\ tasks' = Vacate(ob, tasks, o).tasks
                   /\ resp' = Return("destroy_target", Ok)
              ELSE /\ resp' = Return("destroy_target", Err(ErrBackend))
                   /\ UNCHANGED <<targets, objs, tasks>>
         /\ UNCHANGED <<tms, nextUUID>>

\* destroyTargetRPC: destroy() runs under m_targets_mtx and the entry is
\* erased whatever destroy() returned.  destroy() waits while a
\* MigrationHandle locks the backend.
DestroyTarget(p, u) ==
    IF ~FindTarget(p, u)
    THEN /\ resp' = Return("destroy_target", DestroyNotFound)
         /\ UNCHANGED <<targets, tms, objs, tasks, nextUUID>>
    ELSE LET o == targets[p][u].obj IN
         /\ ~objs[o].locked
         /\ \E done \in BOOLEAN :
              LET ob == [objs EXCEPT ![o] = IF done THEN BackendDestroy(@) ELSE @] IN
              /\ targets' = EraseTarget(p, u)
              /\ objs' = Vacate(ob, tasks, o).objs
              /\ tasks' = Vacate(ob, tasks, o).tasks
              /\ resp' = Return("destroy_target", IF done THEN Ok ELSE Err(ErrBackend))
         /\ UNCHANGED <<tms, nextUUID>>

DestroyTargetRPC(p, u) == DestroyTarget(p, u) /\ UNCHANGED destroyed

\* addTransferManager without the test of m_transfer_managers.count(name).
AddTransferManagerOverwriting(transfer_managers, name, type, config, created) ==
    LET parsed == JsonParse(config) IN
    IF ~parsed.ok THEN ErrConfig
    ELSE IF ~ValidateTransferManagerConfig(type, parsed.value) THEN ErrConfig
    ELSE IF ~created THEN ErrBackend
    ELSE ""

\* Where addTransferManager(name, type, string) and
\* addTransferManager(name, type, json) leave ("": the manager is added),
\* given m_transfer_managers and whether
\* TransferManagerFactory::createTransferManager succeeds.
AddTransferManager(transfer_managers, name, type, config, created) ==
    LET parsed == JsonParse(config) IN
    IF ~parsed.ok THEN ErrConfig
    ELSE IF ~ValidateTransferManagerConfig(type, parsed.value) THEN ErrConfig
    ELSE IF name \in DOMAIN transfer_managers THEN ErrTMExists
    ELSE IF ~created THEN ErrBackend
    ELSE ""

\* addTransferManager as addTransferManagerRPC of provider p calls it.
AddTransferManagerOutcome(p, name, type, config, created) ==
    AddTransferManager(tms[p], name, type, config, created)

\* addTransferManagerRPC
AddTransferManagerRPC(p, name, type, config) ==
    \E created \in BOOLEAN :
      LET e == AddTransferManagerOutcome(p, name, type, config, created) IN
      IF e = ""
      THEN /\ tms' = [tms EXCEPT ![p] = MapPut(@, name, type)]
           /\ resp' = Return("add_transfer_manager", Ok)
           /\ UNCHANGED <<targets, objs, tasks, nextUUID, destroyed>>
      ELSE /\ resp' = Return("add_transfer_manager", Err(e))
           /\ UNCHANGED <<targets, tms, objs, tasks, nextUUID, destroyed>>

\* checkTargetRPC
CheckTargetRPC(p, u) ==
    /\ resp' = Return("check_target", IF FindTarget(p, u) THEN Ok ELSE TargetNotFound)
    /\ UNCHANGED <<targets, tms, objs, tasks, nextUUID, destroyed>>

\* ----------------------------------------------------------- construction

\* The configuration document of a provider once json::parse accepted it:
\* "transfer_managers" maps a name to a declaration, "targets" is the array
\* of declarations; a declaration holds "type" and "config" (an absent
\* "config" is json::object()).  valid: does the document pass configSchema?
ProviderConfig(transfer_managers, declared) ==
    [ok |-> TRUE, valid |-> TRUE, transfer_managers |-> transfer_managers,
     targets |-> declared]

Declaration(type, json) == [type |-> type, config |-> json]

\* The empty configuration string, and "{}".
EmptyConfig == ProviderConfig(EmptyMap, <<>>)

\* A configuration string json::parse throws on.
UnparsableConfig == [EmptyConfig EXCEPT !.ok = FALSE]

\* A document configSchema rejects (a declaration without "type").
SchemaInvalidConfig == [EmptyConfig EXCEPT !.valid = FALSE]

\* What the constructor leaves by an exception.
Throw(e) == [ok |-> FALSE, err |-> e, tms |-> EmptyMap, entries |-> <<>>]

\* The second pass over "transfer_managers" alone, every creation
\* succeeding, without the addition of __default__.
ConstructDeclaredOnly(decl, tm_fail) == [name \in DOMAIN decl |-> decl[name].type]

\* m_transfer_managers after the second pass over "transfer_managers" and
\* the addition of __default__: addTransferManager is called for every
\* declaration, then for __default__ when no manager has that name, and
\* what it returns is not looked at.  tm_fail: the declared names
\* createTransferManager fails for (the built-in type __default__ with the
\* empty configuration is created without fail).
ConstructTransferManagers(decl, tm_fail) ==
    LET added == {name \in DOMAIN decl :
                    AddTransferManager(EmptyMap, name, decl[name].type,
                                       JsonDump(decl[name].config), name \notin tm_fail) = ""}
        declared == [name \in added |-> decl[name].type]
    IN IF DefaultTM \in DOMAIN declared
       THEN declared
       ELSE IF AddTransferManager(declared, DefaultTM, DefaultTM, JsonDump(EmptyJSON), TRUE) = ""
            THEN MapPut(declared, DefaultTM, DefaultTM)
            ELSE declared

\* The constructor without its second pass over "targets".
ConstructNoTargets(transfer_managers, declared, tg_fail) == <<>>

\* The entries the second pass over "targets" leaves in m_targets, in the
\* order of the array: addTarget is called for every declaration and what
\* it returns is not looked at.  tg_fail: the positions createTarget fails
\* at.
ConstructTargets(transfer_managers, declared, tg_fail) ==
    LET call(i) == AddTarget(transfer_managers, declared[i].type,
                            JsonDump(declared[i].config), i \notin tg_fail)
        json(i) == JsonParse(JsonDump(declared[i].config)).value
        all == [i \in 1..Len(declared) |->
                  [type |-> declared[i].type, cfg |-> json(i),
                   tm |-> JsonValue(json(i), "transfer_manager", DefaultTM),
                   added |-> call(i) = "added"]]
        kept == SelectSeq(all, LAMBDA e : e.added)
    IN [i \in 1..Len(kept) |-> [type |-> kept[i].type, cfg |-> kept[i].cfg, tm |-> kept[i].tm]]

\* What the constructor leaves by an exception thrown when it had
\* instantiated the managers transfer_managers.
ThrowAfter(e, transfer_managers) == [Throw(e) EXCEPT !.tms = transfer_managers]

\* The first pass over "transfer_managers": does validateTransferManagerConfig
\* accept every declaration?
ValidateTransferManagers(decl) ==
    \A name \in DOMAIN decl :
        ValidateTransferManagerConfig(decl[name].type, decl[name].config)

\* The first pass over "targets": does validateTargetConfig accept every
\* declaration?
ValidateTargets(declared) ==
    \A i \in 1..Len(declared) : ValidateTargetConfig(declared[i].type, declared[i].config)

\* The constructor with each second pass run before its first pass.
ProviderImplInstantiateFirst(config, tm_fail, tg_fail) ==
    IF ~config.ok THEN Throw(ErrConfig)
    ELSE IF ~config.valid THEN Throw(ErrConfig)
    ELSE LET transfer_managers == ConstructTransferManagers(config.transfer_managers, tm_fail) IN
         IF ~ValidateTransferManagers(config.transfer_managers)
         THEN ThrowAfter(ErrConfig, transfer_managers)
         ELSE IF ~ValidateTargets(config.targets)
         THEN [ThrowAfter(ErrConfig, transfer_managers) EXCEPT
                 !.entries = ConstructTargets(transfer_managers, config.targets, tg_fail)]
         ELSE [ok |-> TRUE, err |-> "", tms |-> transfer_managers,
               entries |-> ConstructTargets(transfer_managers, config.targets, tg_fail)]

\* ProviderImpl::ProviderImpl: the registries of the provider built from
\* config, or the exception it throws and what had been instantiated by
\* then.
ProviderImpl(config, tm_fail, tg_fail) ==
    IF ~config.ok THEN Throw(ErrConfig)
    ELSE IF ~config.valid THEN Throw(ErrConfig)
    ELSE IF ~ValidateTransferManagers(config.transfer_managers)
         THEN Throw(ErrConfig)
    ELSE LET transfer_managers == ConstructTransferManagers(config.transfer_managers, tm_fail) IN
         IF ~ValidateTargets(config.targets)
         THEN ThrowAfter(ErrConfig, transfer_managers)
         ELSE [ok |-> TRUE, err |-> "", tms |-> transfer_managers,
               entries |-> ConstructTargets(transfer_managers, config.targets, tg_fail)]

\* What the host gets from new Provider(config): the provider, or the
\* exception (nothing is sent to any client).  managers and targets: what
\* the factories had instantiated when the constructor ended.
Constructed(r) ==
    [op |-> "construct", res |-> IF r.ok THEN Ok ELSE Err(r.err), n |-> 0, done |-> r.ok,
     managers |-> DOMAIN r.tms, targets |-> Len(r.entries)]

\* WarabiFactory::registerProvider: the host builds provider p from config.
\* After an exception there is no provider p.
RegisterProvider(p, config) ==
    /\ p \notin DOMAIN tms
    /\ \E tm_fail \in SUBSET (DOMAIN config.transfer_managers),
          tg_fail \in SUBSET (1..Len(config.targets)) :
         LET r == ProviderImpl(config, tm_fail, tg_fail)
             n == Len(r.entries)
             id(i) == nextUUID + i - 1
             new == {id(i) : i \in 1..n}
         IN IF ~r.ok
            THEN /\ resp' = Constructed(r)
                 /\ UNCHANGED <<targets, tms, objs, tasks, nextUUID, destroyed>>
            ELSE /\ nextUUID + n <= MaxUUID + 1
                 /\ tms' = MapPut(tms, p, r.tms)
                 /\ targets' = MapPut(targets, p,
                                  [u \in new |-> TargetEntry(Cell(p, u), r.entries[u - nextUUID + 1].tm)])
                 /\ objs' = [a \in Heap |->
                               IF a[1] = p /\ a[2] \in new
                               THEN NewBackend(r.entries[a[2] - nextUUID + 1].type,
                                               r.entries[a[2] - nextUUID + 1].cfg)
                               ELSE objs[a]]
                 /\ nextUUID' = nextUUID + n
                 /\ resp' = Constructed(r)
                 /\ UNCHANGED <<tasks, destroyed>>

\* ProviderImpl::getConfig of provider p, as a document: every target with
\* its type and its backend's configuration, in which the name of its
\* transfer manager is written; every transfer manager with its type
\* ("__id__" is left out: the constructor does not read it).
GetConfigTarget(p, u) ==
    Declaration(objs[targets[p][u].obj].type,
                JsonUpdate(JsonParse(JsonDump(objs[targets[p][u].obj].cfg)).value,
                           [k \in {"transfer_manager"} |-> targets[p][u].tm]))

\* The targets of m_targets in the order the loop of getConfig meets them.
RECURSIVE TargetsInOrder(_, _)
TargetsInOrder(p, ids) ==
    IF ids = {} THEN <<>>
    ELSE LET u == CHOOSE x \in ids : \A y \in ids : x <= y
         IN <<GetConfigTarget(p, u)>> \o TargetsInOrder(p, ids \ {u})

GetConfig(p) ==
    ProviderConfig([name \in DOMAIN tms[p] |-> Declaration(tms[p][name], EmptyJSON)],
                   TargetsInOrder(p, DOMAIN targets[p]))

\* -------------------------------------------------------------- migration

\* MigrationHandle, construction (Backend::startMigration): it locks all
\* accesses to the target until its destruction.
HandleAcquire(b) == [b EXCEPT !.locked = TRUE]

\* A MigrationHandle whose destruction leaves the target locked.
HandleDestroyLocked(b, cancelled, removeSource) ==
    IF cancelled THEN b ELSE [b EXCEPT !.st = "migrated"]

\* MigrationHandle, destruction: after cancel() the target is back to
\* normal; otherwise the target is marked as migrated and, with
\* removeSource, its storage is removed.
HandleDestroy(b, cancelled, removeSource) ==
    IF cancelled THEN [b EXCEPT !.locked = FALSE]
    ELSE [b EXCEPT !.locked = FALSE,
                   !.st = "migrated",
                   !.storage = IF removeSource THEN FALSE ELSE @,
                   !.regions = IF removeSource THEN [r \in RegionIDs |-> "none"] ELSE @,
                   !.bytes = IF removeSource THEN [r \in RegionIDs |-> <<>>] ELSE @]

\* HANDLE_REMI_ERROR sets the error and returns: is cancel() called on the
\* MigrationHandle on that way out?
RemiErrorCancels == FALSE

\* The branch taken when remi_status is not 0: is mh->cancel() called?
StatusErrorCancels == TRUE

\* What a REMI call returns: REMI_SUCCESS, or an error code; the one
\* remi_fileset_migrate can give back when a callback of the destination
\* returned non-zero is REMI_ERR_USER.
RemiSuccess == "REMI_SUCCESS"
RemiReturns == {RemiSuccess, "REMI_ERR_USER"}

\* FIND_TARGET in migrateTargetRPC: the handler answers not-found, or
\* keeps the entry.
MigrateFindTarget(h, p, u, dest) ==
    IF ~FindTarget(p, u)
    THEN /\ resp' = Return("migrate_target", TargetNotFound)
         /\ UNCHANGED <<targets, tms, objs, tasks, nextUUID, destroyed>>
    ELSE /\ tasks' = [tasks EXCEPT ![h] =
                [IdleTask EXCEPT !.op = "migrate_target", !.pc = "start",
                                 !.p = p, !.u = u, !.dest = dest,
                                 !.obj = targets[p][u].obj]]
         /\ UNCHANGED <<targets, tms, objs, nextUUID, resp, destroyed>>

\* migrateTargetRPC up to FIND_TARGET: look the destination up, create the
\* REMI provider handle, find the target.
MigrateLookup(h, p, u, dest) ==
    /\ FirstIdle(h)
    /\ Cardinality({k \in Tasks : tasks[k].op = "migrate_target"}) < MaxMigrations
    /\ \E handle_created \in BOOLEAN :
         IF dest = BadAddress \/ ~handle_created
         THEN /\ resp' = Return("migrate_target",
                                Err(IF dest = BadAddress THEN ErrLookup ELSE ErrRemi))
              /\ UNCHANGED <<targets, tms, objs, tasks, nextUUID, destroyed>>
         ELSE MigrateFindTarget(h, p, u, dest)

\* A handler whose response leaves while its MigrationHandle is alive.
MigrateExitRespondingFirst(h, holds, cancelled, result) ==
    /\ tasks' = [tasks EXCEPT ![h] = IdleTask]
    /\ objs' = Release(objs, tasks')
    /\ resp' = Return("migrate_target", result)
    /\ UNCHANGED <<targets, tms, nextUUID, destroyed>>

\* The handler of task h leaves: the MigrationHandle, if it holds one, is
\* destroyed, its reference to the entry is dropped, the response is sent.
MigrateExit(h, holds, cancelled, result) ==
    LET t == tasks[h]
        ob == IF holds
              THEN [objs EXCEPT ![t.obj] = HandleDestroy(@, cancelled, t.rm)]
              ELSE objs
    IN /\ tasks' = [tasks EXCEPT ![h] = IdleTask]
       /\ objs' = Release(ob, tasks')
       /\ resp' = Return("migrate_target", result)
       /\ UNCHANGED <<targets, tms, nextUUID, destroyed>>

\* migrateTargetRPC going on to the file-set without a MigrationHandle on
\* the target.
MigrateStartNoHandle(h, removeSource) ==
    /\ tasks[h].pc = "start"
    /\ tasks' = [tasks EXCEPT ![h].pc = "fileset", ![h].rm = removeSource]
    /\ UNCHANGED <<targets, tms, objs, nextUUID, resp, destroyed>>

\* tg->startMigration(options.removeSource): waits while another handle
\* locks the target; fails on a target that has been migrated or destroyed
\* already.
MigrateStart(h, removeSource) ==
    LET t == tasks[h] IN
    /\ t.pc = "start"
    /\ ~objs[t.obj].locked
    /\ \E started \in BOOLEAN :
         IF started /\ objs[t.obj].st = "live" /\ objs[t.obj].storage
         THEN /\ tasks' = [tasks EXCEPT ![h].pc = "fileset", ![h].rm = removeSource]
              /\ objs' = [objs EXCEPT ![t.obj] = HandleAcquire(@)]
              /\ UNCHANGED <<targets, tms, nextUUID, resp, destroyed>>
         ELSE MigrateExit(h, FALSE, FALSE, Err(ErrBackend))

\* The REMI calls between startMigration and the callbacks of the
\* destination: remi_fileset_create, the registration of files and
\* directories, of the four metadata, remi_fileset_set_xfer_size when
\* options.transferSize is not 0, and remi_fileset_migrate itself.
RemiCalls ==
    {"fileset_create", "register_file", "register_directory", "register_metadata",
     "set_xfer_size", "migrate"}

\* The configuration the destination works with: the "config" metadata
\* (the source backend's getConfig()) overlaid with "migration_config".
MergedConfig(config, migration_config) ==
    JsonUpdate(JsonParse(config).value, JsonParse(migration_config).value)

\* beforeMigrationCallback without the lookup of the transfer manager.
BeforeMigrationCallbackAnyTM(d, u, type, config, migration_config) ==
    IF ~JsonParse(config).ok \/ ~JsonParse(migration_config).ok THEN 1
    ELSE IF u \in DOMAIN targets[d] THEN 3
    ELSE IF ~ValidateTargetConfig(type, MergedConfig(config, migration_config)) THEN 4
    ELSE 0

\* What the callback gives back when json::update throws its type_error
\* (the argument is no object) outside the try block: no code at all.
CallbackThrows == -1

\* beforeMigrationCallback at provider d: 0 accepts the transfer.
BeforeMigrationCallback(d, u, type, config, migration_config) ==
    IF ~JsonParse(config).ok \/ ~JsonParse(migration_config).ok THEN 1
    ELSE IF ~JsonIsObject(migration_config) THEN CallbackThrows
    ELSE LET config_json == MergedConfig(config, migration_config) IN
         IF /\ "transfer_manager" \in DOMAIN config_json
            /\ config_json["transfer_manager"] \notin DOMAIN tms[d] THEN 2
         ELSE IF u \in DOMAIN targets[d] THEN 3
         ELSE IF ~ValidateTargetConfig(type, config_json) THEN 4
         ELSE 0

\* migrateTargetRPC from the creation of the file-set to the destination's
\* before-callback: a REMI call that fails ends the handler
\* (HANDLE_REMI_ERROR); otherwise remi_fileset_migrate reaches the
\* destination, whose before-callback accepts or rejects the transfer.
MigrateIssue(h, extraConfig) ==
    LET t == tasks[h]
        b == objs[t.obj]
    IN
    /\ t.pc = "fileset"
    /\ \E failed \in RemiCalls \cup {"none"} :
         IF failed # "none"
         THEN MigrateExit(h, TRUE, RemiErrorCancels, Err(ErrRemi))
         ELSE LET code == BeforeMigrationCallback(t.dest, t.u, b.type,
                                                  JsonDump(b.cfg), extraConfig)
              IN /\ \E rret \in RemiReturns :
                      /\ code = 0 => rret = RemiSuccess
                      /\ code = CallbackThrows => rret # RemiSuccess
                      /\ tasks' = [tasks EXCEPT
                                     ![h].pc = IF code = 0 THEN "transfer" ELSE "rejected",
                                     ![h].extra = IF code = 0 THEN extraConfig ELSE "",
                                     ![h].res = OkVal(code),
                                     ![h].rret = rret]
                 /\ UNCHANGED <<targets, tms, objs, nextUUID, resp, destroyed>>

\* TargetFactory::recoverTarget: the backend rebuilt from the files of the
\* source.
RecoverTarget(src, json) ==
    [st |-> "live", type |-> src.type, cfg |-> json, locked |-> FALSE,
     storage |-> TRUE, regions |-> src.regions, bytes |-> src.bytes]

\* An after-callback that binds every target to the default manager.
AfterMigrationTMDefault(config_json) == DefaultTM

\* The transfer manager afterMigrationCallback binds the target to.
AfterMigrationTM(config_json) ==
    IF "transfer_manager" \in DOMAIN config_json
    THEN config_json["transfer_manager"] ELSE DefaultTM

\* m_targets of the destination after afterMigrationCallback installed
\* the recovered backend o.
InstallTarget(d, u, o, tm_name) ==
    [targets EXCEPT ![d] = MapPut(@, u, TargetEntry(o, tm_name))]

\* remi_fileset_migrate, second half: the files are at the destination and
\* its after-callback runs: 2 and 3 are the failures of the file-set walk
\* and of the root query, 4 the failure of recoverTarget; 0 installs.
AfterMigrationCallback(h) ==
    LET t == tasks[h]
        b == objs[t.obj]
        config_json == MergedConfig(JsonDump(b.cfg), t.extra)
    IN
    /\ t.pc = "transfer"
    /\ \E code \in {0, 2, 3, 4}, rret \in RemiReturns :
         LET tk == [tasks EXCEPT ![h].pc = "status", ![h].res = OkVal(code),
                                 ![h].extra = "", ![h].rret = rret]
             c == Cell(t.dest, t.u)
             v == Vacate(objs, tk, c)
         IN /\ code = 0 => rret = RemiSuccess
            /\ IF code = 0
               THEN /\ targets' = InstallTarget(t.dest, t.u, c, AfterMigrationTM(config_json))
                    /\ objs' = [v.objs EXCEPT ![c] = RecoverTarget(b, config_json)]
                    /\ tasks' = v.tasks
               ELSE /\ tasks' = tk
                    /\ UNCHANGED <<targets, objs>>
    /\ UNCHANGED <<tms, nextUUID, resp, destroyed>>

\* migrateTargetRPC after remi_fileset_migrate returned: HANDLE_REMI_ERROR
\* on its return value, then a non-zero remi_status is an error and
\* cancels the migration; then the handler's scope ends.
MigrateReturn(h) ==
    LET t == tasks[h] IN
    /\ t.pc \in {"rejected", "status"}
    /\ IF t.rret # RemiSuccess
       THEN MigrateExit(h, TRUE, RemiErrorCancels, Err(ErrRemi))
       ELSE IF t.res.val # 0
       THEN MigrateExit(h, TRUE, StatusErrorCancels, Err(ErrStatus))
       ELSE MigrateExit(h, TRUE, FALSE, Ok)

\* ------------------------------------------------------------- data plane

CreateOps == {"create", "create_write", "create_write_eager"}
WriteOps == {"write", "write_eager", "persist"}
ReadOps == {"read", "read_eager"}
DataOps == CreateOps \cup WriteOps \cup ReadOps \cup {"erase"}

\* The handlers that go through a transfer manager, and look the address
\* of the bulk up when the request names one.
BulkOps == {"write", "create_write", "read"}

\* The region argument of the handlers that take one: a region id the
\* backend may have minted, or one it never mints.
RequestRegions == RegionIDs \cup {MaxRegions + 1}

\* The addresses a bulk request can name: none (the caller's endpoint),
\* one engine.lookup resolves, one it throws on.
BulkAddresses == {"", "P1", BadAddress}

\* The handlers whose bytes travel in the request or the response, and
\* the handlers that hand regionOffsetSizes to the region.
EagerOps == {"write_eager", "create_write_eager", "read_eager"}
SpanOps == {"write_eager", "read_eager", "persist"}

\* size_t arithmetic.
SizeT(n) == n % (2 ^ SizeBits)

\* The sum of the sizes of regionOffsetSizes, and that sum as
\* std::accumulate computes it in size_t.
RECURSIVE SpansTotal(_)
SpansTotal(spans) ==
    IF spans = <<>> THEN 0 ELSE spans[1][2] + SpansTotal(Tail(spans))

RECURSIVE SpansSize(_)
SpansSize(spans) ==
    IF spans = <<>> THEN 0 ELSE SizeT(spans[1][2] + SpansSize(Tail(spans)))

\* A region of the given size right after Backend::create.
Zeros(size) == [i \in 1..size |-> 0]

\* Does every span lie inside a region of that content?
InBounds(content, spans) ==
    \A i \in 1..Len(spans) : spans[i][1] + spans[i][2] <= Len(content)

\* Region::read: the bytes of the spans, one span after the other.
RECURSIVE RegionRead(_, _)
RegionRead(content, spans) ==
    IF spans = <<>> THEN <<>>
    ELSE SubSeq(content, spans[1][1] + 1, spans[1][1] + spans[1][2])
         \o RegionRead(content, Tail(spans))

\* Region::write: the content after the bytes of data were written to the
\* spans, one span after the other.
RECURSIVE RegionWrite(_, _, _)
RegionWrite(content, spans, data) ==
    IF spans = <<>> THEN content
    ELSE LET offset == spans[1][1]
             size == spans[1][2]
             written == [i \in 1..Len(content) |->
                           IF offset < i /\ i <= offset + size
                           THEN data[i - offset] ELSE content[i]]
         IN RegionWrite(written, Tail(spans), SubSeq(data, size + 1, Len(data)))

\* A data-plane handler up to the end of FIND_TARGET: it answers not-found,
\* or keeps the entry (the backend and its transfer manager).
DataRequest(h, op, p, u, rid, args) ==
    /\ LastIdle(h)
    /\ Cardinality({k \in Tasks : tasks[k].op \in DataOps}) < MaxDataHandlers
    /\ IF ~FindTarget(p, u)
       THEN /\ resp' = Return(op, TargetNotFound)
            /\ UNCHANGED <<targets, tms, objs, tasks, nextUUID, destroyed>>
       ELSE /\ tasks' = [tasks EXCEPT ![h] =
                   [IdleTask EXCEPT !.op = op, !.pc = "found", !.p = p, !.u = u,
                                    !.obj = targets[p][u].obj, !.tm = targets[p][u].tm,
                                    !.rid = rid, !.args = args]]
            /\ UNCHANGED <<targets, tms, objs, nextUUID, resp, destroyed>>

\* The same, for a request of size 0 with no span and no byte.
DataLookup(h, op, p, u, rid) == DataRequest(h, op, p, u, rid, NoArgs)

\* The handler of task h leaves with the heap ob: its reference to the
\* entry is dropped and the response is sent.
DataExit(h, ob, response) ==
    /\ tasks' = [tasks EXCEPT ![h] = IdleTask]
    /\ objs' = Release(ob, tasks')
    /\ resp' = response
    /\ UNCHANGED <<targets, tms, nextUUID, destroyed>>

\* Can the backend b serve region operations?  Not once it has been
\* migrated or its storage is gone.
Serving(b) == b.st = "live" /\ b.storage

\* The region ids the backend b can mint still, with those of erased
\* regions among them.
FreeRegionsReusing(b) == {r \in RegionIDs : b.regions[r] \in {"none", "erased"}}

\* The region ids the backend b has not minted.
FreeRegions(b) == {r \in RegionIDs : b.regions[r] = "none"}

\* The regions of the backend b a handler can obtain.
LiveRegions(b) == {r \in RegionIDs : b.regions[r] \in {"fresh", "written"}}

\* The handler's call of the backend: create(size), write(region_id,
\* persist), read(region_id) or erase(region_id).  The call waits while a
\* MigrationHandle locks the backend.
BackendCall(h) ==
    LET t == tasks[h]
        b == objs[t.obj]
        known == t.rid \in LiveRegions(b)
        size == IF t.op = "create_write_eager" THEN Len(t.args.data) ELSE t.args.size
    IN
    /\ t.pc = "found"
    /\ t.op \in DataOps
    /\ ~b.locked
    /\ IF ~Serving(b)
       THEN DataExit(h, objs, Return(t.op, Err(ErrBackend)))
       ELSE IF t.op \in CreateOps
       THEN \E created \in BOOLEAN :
              IF ~created \/ FreeRegions(b) = {}
              THEN DataExit(h, objs, Return(t.op, Err(ErrBackend)))
              ELSE LET r == CHOOSE x \in FreeRegions(b) : \A y \in FreeRegions(b) : x <= y
                       ob == [objs EXCEPT ![t.obj].regions[r] = "fresh",
                                          ![t.obj].bytes[r] = Zeros(size)]
                   IN IF t.op = "create"
                      THEN DataExit(h, ob, Return(t.op, OkVal(r)))
                      ELSE /\ tasks' = [tasks EXCEPT ![h].pc = "region", ![h].rid = r,
                                                     ![h].res = OkVal(r)]
                           /\ objs' = ob
                           /\ UNCHANGED <<targets, tms, nextUUID, resp, destroyed>>
       ELSE IF ~known
       THEN DataExit(h, objs, Return(t.op, Err(ErrRegion)))
       ELSE IF t.op = "erase"
       THEN DataExit(h, [objs EXCEPT ![t.obj].regions[t.rid] = "erased",
                                     ![t.obj].bytes[t.rid] = <<>>],
                     Return(t.op, Ok))
       ELSE /\ tasks' = [tasks EXCEPT ![h].pc = "region"]
            /\ UNCHANGED <<targets, tms, objs, nextUUID, resp, destroyed>>

\* What the region holds after the handler's operation on it.
RegionAfter(op, content) ==
    IF op \in ReadOps THEN content
    ELSE IF op = "persist" THEN content
    ELSE "written"

\* engine.lookup(address) in writeRPC, createWriteRPC and readRPC throws on
\* an address it cannot resolve, and nothing in the handler catches it.
LookupThrows(h, address) ==
    /\ tasks[h].pc = "region"
    /\ tasks[h].op \in BulkOps
    /\ address = BadAddress
    /\ DataExit(h, objs, Unwind(tasks[h].op, tasks[h].res))

\* The process dies in the handler: nothing is sent.
Crash(op) == [op |-> op, res |-> Ok, n |-> 0, done |-> FALSE]

\* A create_write that erases the region it created when the write failed.
AfterFailedWriteErasing(h) ==
    IF tasks[h].op \in CreateOps
    THEN [objs EXCEPT ![tasks[h].obj].regions[tasks[h].rid] = "erased",
                      ![tasks[h].obj].bytes[tasks[h].rid] = <<>>]
    ELSE objs

\* The heap after a write, pull or push that failed: the handler sets the
\* error and does nothing else, and a region it created stays.
AfterFailedWrite(h) == objs

\* readEagerRPC: the size it allocates the buffer of the response with.
ReadBufferSize(spans) == SpansSize(spans)

\* The handler's operation on the region it obtained: the transfer
\* manager's pull or push, or the region's write, read or persist.  It
\* waits while a MigrationHandle locks the backend.  The bytes a transfer
\* manager moves are not modelled.  Region::read writes the bytes of the
\* spans to the buffer it is given: past its end, when the buffer is
\* shorter (undefined behaviour: the process dies, or goes on and answers
\* with the buffer as allocated).
RegionCall(h) ==
    LET t == tasks[h]
        b == objs[t.obj]
        content == b.bytes[t.rid]
        spans == IF t.op = "create_write_eager" THEN <<<<0, Len(t.args.data)>>>>
                 ELSE t.args.spans
    IN
    /\ t.pc = "region"
    /\ t.op \in DataOps
    /\ ~b.locked
    /\ \E succeeds \in BOOLEAN :
         IF /\ succeeds /\ Serving(b) /\ t.rid \in LiveRegions(b)
            /\ t.op \in EagerOps \cup SpanOps => InBounds(content, spans)
         THEN IF t.op = "read_eager"
              THEN IF ReadBufferSize(spans) = SpansTotal(spans)
                   THEN DataExit(h, objs, Return(t.op, OkData(RegionRead(content, spans))))
                   ELSE \E dies \in BOOLEAN :
                          DataExit(h, objs,
                                   IF dies THEN Crash(t.op)
                                   ELSE Return(t.op, OkData(SubSeq(RegionRead(content, spans),
                                                                   1, ReadBufferSize(spans)))))
              ELSE DataExit(h, [objs EXCEPT
                                  ![t.obj].regions[t.rid] = RegionAfter(t.op, @),
                                  ![t.obj].bytes[t.rid] =
                                     IF t.op \in {"write_eager", "create_write_eager"}
                                     THEN RegionWrite(@, spans, t.args.data) ELSE @],
                            Return(t.op, t.res))
         ELSE DataExit(h, AfterFailedWrite(h),
                       Return(t.op, Err(IF t.op \in BulkOps THEN ErrTransfer ELSE ErrBackend)))

\* ------------------------------------------------------ registry mutexes

\* The handlers above take and release the registry mutexes inside one
\* step.  Below, the handlers of a provider are cut where they ask for a
\* mutex and where they call a backend with a mutex held, so that two of
\* them can be inside their critical sections at the same time.

TargetsMtx == "m_targets_mtx"
TMsMtx == "m_transfer_managers_mtx"

\* The provider whose registries the task works on: the callbacks of a
\* migration run at the destination.
At(t) == IF t.op = "migrate_target" THEN t.dest ELSE t.p

\* Does task h hold the mutex m of provider p?
Holds(h, p, m) == m \in tasks[h].held /\ At(tasks[h]) = p

\* A mutex that keeps nobody out.
MutexFreeAlways(p, m) == TRUE

\* tl::mutex: is the mutex m of provider p free?
MutexFree(p, m) == \A k \in Tasks : ~Holds(k, p, m)

\* getConfig taking m_transfer_managers_mtx first.
LockOrderReversed(op) ==
    IF op = "get_config" THEN <<TMsMtx, TargetsMtx>>
    ELSE IF op = "add_target" THEN <<TargetsMtx, TMsMtx>>
    ELSE IF op \in {"add_transfer_manager", "migrate_target"} THEN <<TMsMtx>>
    ELSE <<TargetsMtx>>

\* The mutexes a handler takes before its critical section, in the order
\* of its lock_guard declarations: addTarget and getConfig both, the
\* callbacks of a migration and addTransferManager the second, FIND_TARGET,
\* removeTargetRPC and destroyTargetRPC the first.
LockOrder(op) ==
    IF op \in {"add_target", "get_config"} THEN <<TargetsMtx, TMsMtx>>
    ELSE IF op \in {"add_transfer_manager", "migrate_target"} THEN <<TMsMtx>>
    ELSE <<TargetsMtx>>

\* The places where a task waits for a mutex, and where it is once it has
\* all of them.
LockPcs == {"lock", "before_lock", "after_lock"}

AfterLock(pc) ==
    CASE pc = "lock" -> "locked"
      [] pc = "before_lock" -> "before_locked"
      [] pc = "after_lock" -> "after_locked"

\* The mutex task h is waiting for.
Wanted(h) == LockOrder(tasks[h].op)[Cardinality(tasks[h].held) + 1]

Waiting(h) == tasks[h].pc \in LockPcs

\* std::lock_guard / std::unique_lock, construction: the task gets the
\* mutex once nobody holds it.
Lock(h) ==
    LET t == tasks[h] IN
    /\ Waiting(h)
    /\ MutexFree(At(t), Wanted(h))
    /\ tasks' = [tasks EXCEPT
                   ![h].held = @ \cup {Wanted(h)},
                   ![h].pc = IF Cardinality(t.held) + 1 = Len(LockOrder(t.op))
                             THEN AfterLock(@) ELSE @]
    /\ UNCHANGED <<targets, tms, objs, nextUUID, resp, destroyed>>

\* The handler of task h leaves with the heap ob: its guards release the
\* mutexes, its references are dropped, the response is sent.
LockedExit(h, ob, response) ==
    /\ tasks' = [tasks EXCEPT ![h] = IdleTask]
    /\ objs' = Release(ob, tasks')
    /\ resp' = response

\* addTargetRPC up to the first lock_guard of addTarget(json): the config
\* is parsed and validated, the UUID generated and the backend created.
AddTargetCreate(h, p, type, config) ==
    /\ FirstIdle(h)
    /\ \E created \in BOOLEAN :
         LET outcome == AddTarget(tms[p], type, config, created) IN
         IF outcome \in {"parse_error", "invalid", "create_failed"}
         THEN /\ resp' = Return("add_target", Err(AddTargetError(outcome)))
              /\ UNCHANGED <<targets, tms, objs, tasks, nextUUID, destroyed>>
         ELSE /\ nextUUID <= MaxUUID
              /\ tasks' = [tasks EXCEPT ![h] =
                     [IdleTask EXCEPT !.op = "add_target", !.pc = "lock", !.p = p,
                                      !.u = UUIDGenerate, !.extra = config]]
              /\ objs' = [objs EXCEPT ![Cell(p, UUIDGenerate)] =
                            NewBackend(type, JsonParse(config).value)]
              /\ nextUUID' = nextUUID + 1
              /\ UNCHANGED <<targets, tms, resp, destroyed>>

\* addTarget(json) with both mutexes: the transfer manager is looked up and
\* the entry inserted; the backend is deleted when there is no such
\* manager.
AddTargetLocked(h) ==
    LET t == tasks[h]
        tm_name == JsonValue(JsonParse(t.extra).value, "transfer_manager", DefaultTM)
    IN
    /\ t.op = "add_target" /\ t.pc = "locked"
    /\ IF tm_name \notin DOMAIN tms[t.p]
       THEN /\ LockedExit(h, [objs EXCEPT ![Cell(t.p, t.u)] = FreeObj],
                          Return("add_target", Err(ErrNoTM)))
            /\ UNCHANGED <<targets, tms, nextUUID, destroyed>>
       ELSE /\ targets' = [targets EXCEPT ![t.p] =
                              MapPut(@, t.u, TargetEntry(Cell(t.p, t.u), tm_name))]
            /\ LockedExit(h, objs, Return("add_target", OkVal(t.u)))
            /\ UNCHANGED <<tms, nextUUID, destroyed>>

\* addTransferManagerRPC up to the lock_guard of addTransferManager(json):
\* the config is parsed and validated.
AddTransferManagerValidate(h, p, name, type, config) ==
    /\ FirstIdle(h)
    /\ IF ~JsonParse(config).ok
          \/ ~ValidateTransferManagerConfig(type, JsonParse(config).value)
       THEN /\ resp' = Return("add_transfer_manager", Err(ErrConfig))
            /\ UNCHANGED <<targets, tms, objs, tasks, nextUUID, destroyed>>
       ELSE /\ tasks' = [tasks EXCEPT ![h] =
                   [IdleTask EXCEPT !.op = "add_transfer_manager", !.pc = "lock", !.p = p,
                                    !.tm = name, !.extra = type]]
            /\ UNCHANGED <<targets, tms, objs, nextUUID, resp, destroyed>>

\* addTransferManager(json) with m_transfer_managers_mtx: the name is
\* tested, the manager created by its factory and inserted.
AddTransferManagerLocked(h) ==
    LET t == tasks[h] IN
    /\ t.op = "add_transfer_manager" /\ t.pc = "locked"
    /\ \E created \in BOOLEAN :
         LET e == AddTransferManager(tms[t.p], t.tm, t.extra, "{}", created) IN
         /\ tms' = IF e = "" THEN [tms EXCEPT ![t.p] = MapPut(@, t.tm, t.extra)] ELSE tms
         /\ LockedExit(h, objs, Return("add_transfer_manager", IF e = "" THEN Ok ELSE Err(e)))
    /\ UNCHANGED <<targets, nextUUID, destroyed>>

\* The handlers that begin with a lock_guard on m_targets_mtx, and
\* getConfig: they ask for their first mutex.
HandlerBegin(h, op, p, u, rid) ==
    /\ FirstIdle(h)
    /\ tasks' = [tasks EXCEPT ![h] =
           [IdleTask EXCEPT !.op = op, !.pc = "lock", !.p = p, !.u = u, !.rid = rid]]
    /\ UNCHANGED <<targets, tms, objs, nextUUID, resp, destroyed>>

\* FIND_TARGET with the mutex: the handler answers not-found, or copies the
\* shared_ptr of the entry out; the guard ends with the do-while block.
\* checkTargetRPC has nothing left to do then.
FindTargetLocked(h) ==
    LET t == tasks[h] IN
    /\ t.op \in DataOps \cup {"check_target"} /\ t.pc = "locked"
    /\ IF ~FindTarget(t.p, t.u)
       THEN LockedExit(h, objs, Return(t.op, TargetNotFound))
       ELSE IF t.op = "check_target"
       THEN LockedExit(h, objs, Return(t.op, Ok))
       ELSE /\ tasks' = [tasks EXCEPT ![h].pc = "found", ![h].held = {},
                                      ![h].obj = targets[t.p][t.u].obj,
                                      ![h].tm = targets[t.p][t.u].tm]
            /\ UNCHANGED <<objs, resp>>
    /\ UNCHANGED <<targets, tms, nextUUID, destroyed>>

\* removeTargetRPC with the mutex.
RemoveTargetLocked(h) ==
    LET t == tasks[h]
        tk == [tasks EXCEPT ![h] = IdleTask]
    IN
    /\ t.op = "remove_target" /\ t.pc = "locked"
    /\ IF ~FindTarget(t.p, t.u)
       THEN /\ LockedExit(h, objs, Return(t.op, Err(ErrNotFound)))
            /\ UNCHANGED targets
       ELSE LET v == Vacate(objs, tk, targets[t.p][t.u].obj) IN
            /\ targets' = EraseTarget(t.p, t.u)
            /\ objs' = v.objs
            /\ tasks' = v.tasks
            /\ resp' = Return(t.op, Ok)
    /\ UNCHANGED <<tms, nextUUID, destroyed>>

\* destroyTargetRPC with the mutex, up to the call of destroy().
DestroyTargetLocked(h) ==
    LET t == tasks[h] IN
    /\ t.op = "destroy_target" /\ t.pc = "locked"
    /\ IF ~FindTarget(t.p, t.u)
       THEN LockedExit(h, objs, Return(t.op, DestroyNotFound))
       ELSE /\ tasks' = [tasks EXCEPT ![h].pc = "backend"]
            /\ UNCHANGED <<objs, resp>>
    /\ UNCHANGED <<targets, tms, nextUUID, destroyed>>

\* destroyTargetRPC: target_entry->destroy(), which waits while a
\* MigrationHandle locks the backend, then the erase; the guard ends after
\* both.
DestroyTargetBackend(h) ==
    LET t == tasks[h]
        tk == [tasks EXCEPT ![h] = IdleTask]
        o == targets[t.p][t.u].obj
    IN
    /\ t.op = "destroy_target" /\ t.pc = "backend"
    /\ ~objs[o].locked
    /\ \E done \in BOOLEAN :
         LET ob == [objs EXCEPT ![o] = IF done THEN BackendDestroy(@) ELSE @]
             v == Vacate(ob, tk, o)
         IN /\ targets' = EraseTarget(t.p, t.u)
            /\ objs' = v.objs
            /\ tasks' = v.tasks
            /\ resp' = Return(t.op, IF done THEN Ok ELSE Err(ErrBackend))
    /\ UNCHANGED <<tms, nextUUID, destroyed>>

\* getConfig with both mutexes: without a target it has no backend to ask.
GetConfigLocked(h) ==
    LET t == tasks[h] IN
    /\ t.op = "get_config" /\ t.pc = "locked"
    /\ IF DOMAIN targets[t.p] = {}
       THEN LockedExit(h, objs, Return(t.op, Ok))
       ELSE /\ tasks' = [tasks EXCEPT ![h].pc = "backend"]
            /\ UNCHANGED <<objs, resp>>
    /\ UNCHANGED <<targets, tms, nextUUID, destroyed>>

\* getConfig: the loop that calls getConfig() of every backend and of
\* every transfer manager, then the return.
GetConfigBackend(h) ==
    LET t == tasks[h] IN
    /\ t.op = "get_config" /\ t.pc = "backend"
    /\ LockedExit(h, objs, Return(t.op, Ok))
    /\ UNCHANGED <<targets, tms, nextUUID, destroyed>>

\* Is a task other than h inside a critical section of m_targets_mtx of
\* provider p in which it writes m_targets?
WriterInside(h, p) ==
    \E k \in Tasks \ {h} :
        /\ Holds(k, p, TargetsMtx)
        /\ tasks[k].op \in {"add_target", "remove_target", "destroy_target"}

\* migrateTargetRPC from the creation of the file-set to the entry of the
\* destination's before-callback: a REMI call that fails ends the handler;
\* otherwise the callback reads the metadata and merges the configs, and
\* asks for m_transfer_managers_mtx if the merged config names a manager.
BeforeCallbackEnter(h, extraConfig) ==
    LET t == tasks[h]
        b == objs[t.obj]
        config_json == MergedConfig(JsonDump(b.cfg), extraConfig)
    IN
    /\ t.op = "migrate_target" /\ t.pc = "fileset"
    /\ \E failed \in RemiCalls \cup {"none"} :
         IF failed # "none"
         THEN MigrateExit(h, TRUE, RemiErrorCancels, Err(ErrRemi))
         ELSE /\ tasks' = [tasks EXCEPT
                             ![h].pc = IF "transfer_manager" \in DOMAIN config_json
                                       THEN "before_lock" ELSE "before_targets",
                             ![h].extra = extraConfig]
              /\ UNCHANGED <<targets, tms, objs, nextUUID, resp, destroyed>>

\* What remi_fileset_migrate gives back to the source once a callback
\* returned code: the task goes on to MigrateReturn.
CallbackReturns(h, code, rret, pc) ==
    [tasks EXCEPT ![h].pc = pc, ![h].held = {}, ![h].res = OkVal(code),
                  ![h].rret = rret, ![h].extra = IF code = 0 THEN @ ELSE ""]

\* beforeMigrationCallback with m_transfer_managers_mtx: 2 when the
\* manager is unknown; the lock ends with the if block.
BeforeCallbackTM(h) ==
    LET t == tasks[h]
        config_json == MergedConfig(JsonDump(objs[t.obj].cfg), t.extra)
    IN
    /\ t.op = "migrate_target" /\ t.pc = "before_locked"
    /\ IF config_json["transfer_manager"] \notin DOMAIN tms[t.dest]
       THEN \E rret \in RemiReturns : tasks' = CallbackReturns(h, 2, rret, "rejected")
       ELSE tasks' = [tasks EXCEPT ![h].pc = "before_targets", ![h].held = {}]
    /\ UNCHANGED <<targets, tms, objs, nextUUID, resp, destroyed>>

\* beforeMigrationCallback, provider->m_targets.find(target_id) and the
\* validation: the find takes no mutex, and what it returns while another
\* task writes the map is undefined.
BeforeCallbackTargets(h) ==
    LET t == tasks[h]
        config_json == MergedConfig(JsonDump(objs[t.obj].cfg), t.extra)
    IN
    /\ t.op = "migrate_target" /\ t.pc = "before_targets"
    /\ \E found \in IF WriterInside(h, t.dest) THEN BOOLEAN ELSE {FindTarget(t.dest, t.u)},
          rret \in RemiReturns :
         LET code == IF found THEN 3
                     ELSE IF ~ValidateTargetConfig(objs[t.obj].type, config_json) THEN 4
                     ELSE 0
         IN /\ code = 0 => rret = RemiSuccess
            /\ tasks' = CallbackReturns(h, code, rret,
                                        IF code = 0 THEN "transfer" ELSE "rejected")
    /\ UNCHANGED <<targets, tms, objs, nextUUID, resp, destroyed>>

\* afterMigrationCallback up to the transfer manager: it asks for
\* m_transfer_managers_mtx if the merged config names a manager, and reads
\* m_transfer_managers["__default__"] without it otherwise.
AfterCallbackEnter(h) ==
    LET t == tasks[h]
        config_json == MergedConfig(JsonDump(objs[t.obj].cfg), t.extra)
    IN
    /\ t.op = "migrate_target" /\ t.pc = "transfer"
    /\ tasks' = IF "transfer_manager" \in DOMAIN config_json
                THEN [tasks EXCEPT ![h].pc = "after_lock"]
                ELSE [tasks EXCEPT ![h].pc = "after_recover", ![h].tm = DefaultTM]
    /\ UNCHANGED <<targets, tms, objs, nextUUID, resp, destroyed>>

\* afterMigrationCallback with m_transfer_managers_mtx: the manager is
\* looked up; the lock ends with the if block.
AfterCallbackTM(h) ==
    LET t == tasks[h]
        config_json == MergedConfig(JsonDump(objs[t.obj].cfg), t.extra)
    IN
    /\ t.op = "migrate_target" /\ t.pc = "after_locked"
    /\ tasks' = [tasks EXCEPT ![h].pc = "after_recover", ![h].held = {},
                              ![h].tm = config_json["transfer_manager"]]
    /\ UNCHANGED <<targets, tms, objs, nextUUID, resp, destroyed>>

\* afterMigrationCallback from the walk of the file-set to the end: 2 and
\* 3 are the failures of the walk and of the root query, 4 the failure of
\* recoverTarget; 0 assigns provider->m_targets[target_id] without a
\* mutex: while another task writes the map, the entry may be lost.
AfterCallbackInstall(h) ==
    LET t == tasks[h]
        b == objs[t.obj]
        config_json == MergedConfig(JsonDump(b.cfg), t.extra)
    IN
    /\ t.op = "migrate_target" /\ t.pc = "after_recover"
    /\ \E code \in {0, 2, 3, 4}, rret \in RemiReturns,
          lost \in IF WriterInside(h, t.dest) THEN BOOLEAN ELSE {FALSE} :
         LET tk == [CallbackReturns(h, code, rret, "status") EXCEPT ![h].extra = ""]
             c == Cell(t.dest, t.u)
             v == Vacate(objs, tk, c)
         IN /\ code = 0 => rret = RemiSuccess
            /\ IF code = 0 /\ ~lost
               THEN /\ targets' = InstallTarget(t.dest, t.u, c, t.tm)
                    /\ objs' = [v.objs EXCEPT ![c] = RecoverTarget(b, config_json)]
                    /\ tasks' = v.tasks
               ELSE /\ tasks' = tk
                    /\ UNCHANGED <<targets, objs>>
    /\ UNCHANGED <<tms, nextUUID, resp, destroyed>>

\* ---------------------------------------------------------- specification

\* The UUIDs a request can name: those generate() can return, and the nil
\* UUID.
RequestUUIDs == UUIDs \cup {NilUUID}

\* destroyTargetRPC, with the record of the UUIDs it answered success for.
DestroyTargetRecorded(p, u) ==
    /\ DestroyTarget(p, u)
    /\ destroyed' = [destroyed EXCEPT ![p] =
                        IF FindTarget(p, u) /\ resp'.res.ok THEN @ \cup {u} ELSE @]

\* The life of the targets of both providers: they are added, checked,
\* removed, destroyed, and migrated from one provider to the other.
Next ==
    \/ \E p \in Providers, type \in TargetTypes, config \in {"{}", "{["} :
         AddTargetRPC(p, type, config) /\ nextUUID' <= MaxCreated + 1
    \/ \E p \in Providers, u \in RequestUUIDs : RemoveTargetRPC(p, u)
    \/ \E p \in Providers, u \in RequestUUIDs : DestroyTargetRecorded(p, u)
    \/ \E p \in Providers, u \in RequestUUIDs : CheckTargetRPC(p, u)
    \/ \E h \in Tasks, p \in Providers, u \in RequestUUIDs, dest \in Providers \cup {BadAddress} :
         MigrateLookup(h, p, u, dest)
    \/ \E h \in Tasks, removeSource \in BOOLEAN : MigrateStart(h, removeSource)
    \/ \E h \in Tasks, extraConfig \in {"{}", "{["} : MigrateIssue(h, extraConfig)
    \/ \E h \in Tasks : AfterMigrationCallback(h)
    \/ \E h \in Tasks : MigrateReturn(h)

Spec == Init /\ [][Next]_vars

\* The admin plane of both providers, with every type and configuration.
NextAdmin ==
    \/ \E p \in Providers, type \in TargetTypes, config \in ConfigStrings :
         AddTargetRPC(p, type, config)
    \/ \E p \in Providers, u \in RequestUUIDs : RemoveTargetRPC(p, u)
    \/ \E p \in Providers, u \in RequestUUIDs : DestroyTargetRPC(p, u)
    \/ \E p \in Providers, name \in TMNames, type \in TMTypes, config \in ConfigStrings :
         AddTransferManagerRPC(p, name, type, config)
    \/ \E p \in Providers, u \in RequestUUIDs : CheckTargetRPC(p, u)

SpecAdmin == Init /\ [][NextAdmin]_vars

\* The provider the clients of the data plane talk to, and the one its
\* targets migrate to.
Source == "P1"
Destination == "P2"

\* All fifteen handlers: the data plane of one provider, its admin plane,
\* and migrations of its targets to the other provider.
NextData ==
    \/ \E type \in TargetTypes : AddTargetRPC(Source, type, "{}") /\ nextUUID' <= MaxCreated + 1
    \/ \E u \in RequestUUIDs : RemoveTargetRPC(Source, u)
    \/ \E u \in RequestUUIDs : DestroyTargetRPC(Source, u)
    \/ \E type \in TMTypes : AddTransferManagerRPC(Source, DefaultTM, type, "{}")
    \/ \E u \in RequestUUIDs : CheckTargetRPC(Source, u)
    \/ \E h \in Tasks, u \in RequestUUIDs, dest \in {Destination, BadAddress} :
         MigrateLookup(h, Source, u, dest)
    \/ \E h \in Tasks : MigrateStart(h, TRUE)
    \/ \E h \in Tasks : MigrateIssue(h, "{}")
    \/ \E h \in Tasks : AfterMigrationCallback(h)
    \/ \E h \in Tasks : MigrateReturn(h)
    \/ \E h \in Tasks, op \in DataOps, u \in RequestUUIDs, rid \in RequestRegions :
         DataLookup(h, op, Source, u, rid)
    \/ \E h \in Tasks : BackendCall(h)
    \/ \E h \in Tasks, address \in BulkAddresses : LookupThrows(h, address)
    \/ \E h \in Tasks : RegionCall(h)

SpecData == Init /\ [][NextData]_vars

\* The configurations a host builds a provider from.
TMDeclarations ==
    {EmptyMap,
     [name \in {"tmA"} |-> Declaration(DefaultTM, EmptyJSON)],
     [name \in {DefaultTM} |-> Declaration("pipeline", EmptyJSON)],
     [name \in {"tmA"} |-> Declaration("blabla", EmptyJSON)],
     [name \in TMNames |-> Declaration(IF name = "tmA" THEN DefaultTM ELSE "blabla", EmptyJSON)]}

TargetDeclarations ==
    {<<>>,
     <<Declaration("memory", EmptyJSON)>>,
     <<Declaration("memory", [k \in {"transfer_manager"} |-> "tmA"])>>,
     <<Declaration("memory", EmptyJSON),
       Declaration("memory", [k \in {"transfer_manager"} |-> "tmA"])>>,
     <<Declaration("blabla", EmptyJSON)>>,
     <<Declaration("memory", EmptyJSON), Declaration("blabla", EmptyJSON)>>}

ProviderConfigs ==
    {UnparsableConfig, SchemaInvalidConfig}
    \cup {ProviderConfig(t, d) : t \in TMDeclarations, d \in TargetDeclarations}

\* The host starts with the provider Destination, built without
\* configuration, and has yet to build the provider Source.
InitConfig ==
    /\ targets = [p \in {"P2"} |-> EmptyMap]
    /\ tms = [p \in {"P2"} |-> [n \in {DefaultTM} |-> DefaultTM]]
    /\ objs = [a \in Heap |-> FreeObj]
    /\ tasks = [h \in Tasks |-> IdleTask]
    /\ nextUUID = 1
    /\ resp = NoResponse
    /\ destroyed = [p \in Providers |-> {}]

\* A provider is built from a configuration; targets and transfer managers
\* are added to the providers there are, targets are removed and destroyed.
NextConfig ==
    \/ \E config \in ProviderConfigs : RegisterProvider("P1", config)
    \/ \E p \in DOMAIN tms, config \in {"{}", "{\"transfer_manager\":\"tmA\"}"} :
         AddTargetRPC(p, "memory", config)
    \/ \E p \in DOMAIN tms, name \in TMNames, type \in TMTypes :
         AddTransferManagerRPC(p, name, type, "{}")
    \/ \E p \in DOMAIN tms, u \in UUIDs : RemoveTargetRPC(p, u)
    \/ \E p \in DOMAIN tms, u \in UUIDs : DestroyTargetRPC(p, u)

SpecConfig == InitConfig /\ [][NextConfig]_vars

\* The same host, with one target, which is also migrated between the
\* providers there are.
NextBinding ==
    \/ \E config \in ProviderConfigs :
         RegisterProvider("P1", config) /\ nextUUID' <= MaxCreated + 1
    \/ \E p \in DOMAIN tms, config \in {"{}", "{\"transfer_manager\":\"tmA\"}"} :
         AddTargetRPC(p, "memory", config) /\ nextUUID' <= MaxCreated + 1
    \/ \E p \in DOMAIN tms, type \in {DefaultTM, "blabla"} :
         AddTransferManagerRPC(p, "tmA", type, "{}")
    \/ \E p \in DOMAIN tms, u \in UUIDs : RemoveTargetRPC(p, u)
    \/ \E p \in DOMAIN tms, u \in UUIDs : DestroyTargetRPC(p, u)
    \/ \E h \in Tasks, p \in DOMAIN tms, u \in UUIDs, dest \in DOMAIN tms :
         MigrateLookup(h, p, u, dest)
    \/ \E h \in Tasks : MigrateStart(h, TRUE)
    \/ \E h \in Tasks, extraConfig \in {"{}", "{\"transfer_manager\":\"tmA\"}"} :
         MigrateIssue(h, extraConfig)
    \/ \E h \in Tasks : AfterMigrationCallback(h)
    \/ \E h \in Tasks : MigrateReturn(h)

SpecBinding == InitConfig /\ [][NextBinding]_vars

\* Several targets of one provider: they are added, removed and destroyed
\* while a data-plane handler holds the entry of one of them.
NextFrame ==
    \/ AddTargetRPC(Source, "memory", "{}")
    \/ \E u \in UUIDs : RemoveTargetRPC(Source, u)
    \/ \E u \in UUIDs : DestroyTargetRPC(Source, u)
    \/ \E type \in {DefaultTM, "blabla"} : AddTransferManagerRPC(Source, "tmA", type, "{}")
    \/ \E h \in Tasks, op \in {"create", "read_eager"}, u \in UUIDs, rid \in RegionIDs :
         DataLookup(h, op, Source, u, rid)
    \/ \E h \in Tasks : BackendCall(h)
    \/ \E h \in Tasks : RegionCall(h)

SpecFrame == Init /\ [][NextFrame]_vars

\* The eager data path on the targets of one provider: regions of every
\* size_t size, payloads up to two bytes, and span lists, among them one
\* outside a region of one byte and one whose sizes add up to 2^SizeBits.
Sizes == 0..(2 ^ SizeBits - 1)

Buffers == {<<>>, <<1>>, <<1, 2>>, <<2, 1>>}

SpanLists ==
    {<<>>, <<<<0, 1>>>>, <<<<0, 2>>>>, <<<<1, 1>>>>, <<<<0, 3>>>>,
     <<<<1, 1>>, <<0, 1>>>>, <<<<0, 2>>, <<0, 2>>>>}

\* The requests of the eager path: write_eager sends as many bytes as its
\* spans name.
EagerRequests(op) ==
    IF op = "create" THEN {RequestArgs(size, <<>>, <<>>) : size \in Sizes}
    ELSE IF op = "create_write_eager" THEN {RequestArgs(0, <<>>, buffer) : buffer \in Buffers}
    ELSE IF op = "write_eager"
    THEN {RequestArgs(0, spans, buffer) : <<spans, buffer>> \in
            {x \in SpanLists \X Buffers : SpansTotal(x[1]) = Len(x[2])}}
    ELSE IF op = "read_eager" THEN {RequestArgs(0, spans, <<>>) : spans \in SpanLists}
    ELSE {NoArgs}

NextEager ==
    \/ AddTargetRPC(Source, "memory", "{}") /\ nextUUID' <= MaxCreated + 1
    \/ \E u \in UUIDs : DestroyTargetRPC(Source, u)
    \/ \E h \in Tasks, op \in EagerOps \cup {"create", "erase"}, u \in UUIDs, rid \in RegionIDs :
         \E args \in EagerRequests(op) : DataRequest(h, op, Source, u, rid, args)
    \/ \E h \in Tasks : BackendCall(h)
    \/ \E h \in Tasks : RegionCall(h)

SpecEager == Init /\ [][NextEager]_vars

\* The registry mutexes of the destination: its handlers step by step,
\* and the callbacks of a migration that comes in from the source, whose
\* target add_target made.
LockedOps == {"remove_target", "destroy_target", "get_config", "erase"}

NextLocks ==
    \/ AddTargetRPC(Source, "memory", "{}") /\ nextUUID' <= MaxCreated + 1
    \/ \E h \in Tasks, u \in UUIDs : MigrateLookup(h, Source, u, Destination)
    \/ \E h \in Tasks : MigrateStart(h, TRUE)
    \/ \E h \in Tasks, extraConfig \in {"{}", "{\"transfer_manager\":\"tmA\"}"} :
         BeforeCallbackEnter(h, extraConfig)
    \/ \E h \in Tasks : BeforeCallbackTM(h)
    \/ \E h \in Tasks : BeforeCallbackTargets(h)
    \/ \E h \in Tasks : AfterCallbackEnter(h)
    \/ \E h \in Tasks : AfterCallbackTM(h)
    \/ \E h \in Tasks : AfterCallbackInstall(h)
    \/ \E h \in Tasks : MigrateReturn(h)
    \/ \E h \in Tasks, config \in {"{}", "{\"transfer_manager\":\"tmA\"}"} :
         AddTargetCreate(h, Destination, "memory", config)
    \/ \E h \in Tasks : AddTargetLocked(h)
    \/ \E h \in Tasks, type \in {DefaultTM, "blabla"} :
         AddTransferManagerValidate(h, Destination, "tmA", type, "{}")
    \/ \E h \in Tasks : AddTransferManagerLocked(h)
    \/ \E h \in Tasks, op \in LockedOps, u \in UUIDs, rid \in RegionIDs :
         HandlerBegin(h, op, Destination, u, rid)
    \/ \E h \in Tasks : Lock(h)
    \/ \E h \in Tasks : FindTargetLocked(h)
    \/ \E h \in Tasks : RemoveTargetLocked(h)
    \/ \E h \in Tasks : DestroyTargetLocked(h)
    \/ \E h \in Tasks : DestroyTargetBackend(h)
    \/ \E h \in Tasks : GetConfigLocked(h)
    \/ \E h \in Tasks : GetConfigBackend(h)
    \/ \E h \in Tasks : BackendCall(h)

SpecLocks == Init /\ [][NextLocks]_vars

\* The callbacks of the destination: targets are added with and without a
\* manager name, the manager tmA is added, targets are removed, and
\* targets migrate between the two providers with every kind of
\* options.extraConfig: unparsable, an object (empty, naming a manager,
\* rejected by the backend), and valid JSON that is no object.
MigrationConfigs ==
    {"{[", "{}", "{\"transfer_manager\":\"tmA\"}", "{\"invalid\":\"1\"}", "[]"}

NextCallback ==
    \/ \E p \in Providers, config \in {"{}", "{\"transfer_manager\":\"tmA\"}"} :
         AddTargetRPC(p, "memory", config) /\ nextUUID' <= MaxCreated + 1
    \/ \E p \in Providers : AddTransferManagerRPC(p, "tmA", DefaultTM, "{}")
    \/ \E p \in Providers, u \in UUIDs : RemoveTargetRPC(p, u)
    \/ \E h \in Tasks, p \in Providers, u \in UUIDs, dest \in Providers :
         MigrateLookup(h, p, u, dest)
    \/ \E h \in Tasks, removeSource \in BOOLEAN : MigrateStart(h, removeSource)
    \/ \E h \in Tasks, extraConfig \in MigrationConfigs : MigrateIssue(h, extraConfig)
    \/ \E h \in Tasks : AfterMigrationCallback(h)
    \/ \E h \in Tasks : MigrateReturn(h)

SpecCallback == Init /\ [][NextCallback]_vars

\* Migrations that come in while the destination's own handlers run: both
\* providers add targets step by step, and targets migrate from either
\* provider to the other, the callbacks of the destination step by step.
NextIncoming ==
    \/ \E h \in Tasks, p \in Providers : AddTargetCreate(h, p, "memory", "{}")
    \/ \E h \in Tasks : Lock(h)
    \/ \E h \in Tasks : AddTargetLocked(h)
    \/ \E h \in Tasks, p \in Providers, u \in UUIDs :
         MigrateLookup(h, p, u, CHOOSE dest \in Providers : dest # p)
    \/ \E h \in Tasks, removeSource \in BOOLEAN : MigrateStart(h, removeSource)
    \/ \E h \in Tasks : BeforeCallbackEnter(h, "{}")
    \/ \E h \in Tasks : BeforeCallbackTargets(h)
    \/ \E h \in Tasks : AfterCallbackEnter(h)
    \/ \E h \in Tasks : AfterCallbackInstall(h)
    \/ \E h \in Tasks : MigrateReturn(h)

SpecIncoming == Init /\ [][NextIncoming]_vars

\* The freeze: region operations on the targets of the source while they
\* migrate to the destination.
NextFreeze ==
    \/ AddTargetRPC(Source, "memory", "{}") /\ nextUUID' <= MaxCreated + 1
    \/ \E h \in Tasks, u \in UUIDs : MigrateLookup(h, Source, u, Destination)
    \/ \E h \in Tasks, removeSource \in BOOLEAN : MigrateStart(h, removeSource)
    \/ \E h \in Tasks : MigrateIssue(h, "{}")
    \/ \E h \in Tasks : AfterMigrationCallback(h)
    \/ \E h \in Tasks : MigrateReturn(h)
    \/ \E h \in Tasks, op \in {"create", "persist"}, u \in UUIDs, rid \in RegionIDs :
         DataLookup(h, op, Source, u, rid)
    \/ \E h \in Tasks : BackendCall(h)
    \/ \E h \in Tasks : RegionCall(h)

\* Scheduling: a handler that can take its next step takes it (the REMI
\* calls and the file transfer return, the callbacks of the destination
\* run); a handler that waits for the backend a MigrationHandle locks is
\* woken when the handle is destroyed, however often the target is
\* frozen again afterwards.
FairFreeze ==
    \A h \in Tasks :
      /\ WF_vars(MigrateIssue(h, "{}"))
      /\ WF_vars(AfterMigrationCallback(h))
      /\ WF_vars(MigrateReturn(h))
      /\ SF_vars(BackendCall(h))
      /\ SF_vars(RegionCall(h))

\* Requests that race for one target: targets are added at the
\* destination, and remove_target and destroy_target requests for any UUID
\* run there at the same time, step by step.
RaceOps == {"remove_target", "destroy_target"}

NextRace ==
    \/ \E h \in Tasks : AddTargetCreate(h, Destination, "memory", "{}")
    \/ \E h \in Tasks : AddTargetLocked(h)
    \/ \E h \in Tasks, op \in RaceOps, u \in UUIDs :
         HandlerBegin(h, op, Destination, u, 0)
    \/ \E h \in Tasks : Lock(h)
    \/ \E h \in Tasks : RemoveTargetLocked(h)
    \/ \E h \in Tasks : DestroyTargetLocked(h)
    \/ \E h \in Tasks : DestroyTargetBackend(h)

SpecRace == Init /\ [][NextRace]_vars

SpecFreeze == Init /\ [][NextFreeze]_vars

SpecFreezeFair == SpecFreeze /\ FairFreeze

\* ------------------------------------------------------------ properties

\* The positions of migrateTargetRPC at which it holds a MigrationHandle.
HandleLive == {"fileset", "transfer", "rejected", "status"}

\* C1 (as stated): once destroy_target(U) has answered success at a
\* provider, U never resolves there again.
C1_StaysDestroyed ==
    \A p \in Providers : \A u \in destroyed[p] : ~FindTarget(p, u)

\* C1 (amended): a registered target resolves until remove_target or
\* destroy_target takes it out; a destroy_target that answers success has
\* taken it out; check_target answers success exactly for the registered
\* UUIDs; and a destroyed UUID comes back to the provider only when the
\* after-callback of an incoming migration installs it (add_target never
\* re-issues it).
C1_Lifecycle ==
    [][\A p \in Providers, u \in UUIDs :
         /\ (FindTarget(p, u) /\ u \notin DOMAIN targets'[p])
               => (RemoveTargetRPC(p, u) \/ DestroyTargetRecorded(p, u))
         /\ (FindTarget(p, u) /\ DestroyTargetRecorded(p, u) /\ resp'.res.ok)
               => (u \notin DOMAIN targets'[p] /\ u \in destroyed'[p])
         /\ CheckTargetRPC(p, u)
               => (resp'.res.ok <=> FindTarget(p, u))
         /\ (u \in destroyed[p] /\ ~FindTarget(p, u) /\ u \in DOMAIN targets'[p])
               => \E h \in Tasks : /\ tasks[h].dest = p
                                   /\ tasks[h].u = u
                                   /\ AfterMigrationCallback(h)
         /\ u \in destroyed[p] => u < nextUUID'
      ]_vars

\* C1, its case: a target was destroyed at a provider and a check_target
\* has answered not-found while it does not resolve there.
C1_Witness ==
    \E p \in Providers : \E u \in destroyed[p] :
      /\ ~FindTarget(p, u)
      /\ resp = Return("check_target", TargetNotFound)

\* C2 (as stated): when migrate_target with removeSource answers success,
\* the UUID resolves at the destination and no longer at the source.
C2_MigrationAtomicity ==
    [][\A h \in Tasks :
         (tasks[h].rm /\ MigrateReturn(h) /\ resp'.res.ok)
         => /\ tasks[h].u \in DOMAIN targets'[tasks[h].dest]
            /\ tasks[h].u \notin DOMAIN targets'[tasks[h].p]]_vars

\* The backend after a migration has been rolled back: as it was, unlocked
\* (or deleted, when the handler held the last reference to it).
RolledBack(b) == {[b EXCEPT !.locked = FALSE], FreeObj}

\* C3 (as stated): when migrate_target fails on a REMI call made while it
\* holds the MigrationHandle, the handle is cancelled: the source target is
\* not marked as migrated and keeps its storage.
C3_SourceRollback ==
    [][\A h \in Tasks :
         ( /\ tasks[h].pc \in HandleLive
           /\ tasks'[h].pc = "idle"
           /\ resp'.res.err = ErrRemi )
         => objs'[tasks[h].obj] \in RolledBack(objs[tasks[h].obj])]_vars

\* C4 (as stated): when the before-callback of the destination rejects the
\* transfer, migrate_target answers an error, the handle is cancelled,
\* nothing is installed at the destination, and the source target stays
\* registered and live.
C4_RejectionRollback ==
    [][\A h \in Tasks :
         (tasks[h].pc = "rejected" /\ MigrateReturn(h))
         => /\ ~resp'.res.ok
            /\ targets' = targets
            /\ objs'[tasks[h].obj] \in RolledBack(objs[tasks[h].obj])]_vars

\* C8: add_target with an unknown backend type, with a configuration that
\* is not JSON, or with a configuration the factory's validation rejects,
\* answers an error and leaves m_targets and m_transfer_managers as they
\* were.
C8_AddTargetRejects ==
    [][\A p \in Providers, type \in TargetTypes, config \in ConfigStrings :
         ( /\ \/ type # "memory"
              \/ ~JsonParse(config).ok
              \/ "invalid" \in DOMAIN JsonParse(config).value
           /\ AddTargetRPC(p, type, config) )
         => /\ resp'.op = "add_target"
            /\ ~resp'.res.ok
            /\ resp'.res.err = ErrConfig
            /\ targets' = targets
            /\ tms' = tms
            /\ objs' = objs]_vars

\* C8, its case: add_target answered a configuration error while a target
\* was registered, and that target is still there.
C8_Witness ==
    /\ resp = Return("add_target", Err(ErrConfig))
    /\ \E p \in Providers : DOMAIN targets[p] # {}

\* C9: destroy_target and remove_target on a UUID that is not in m_targets
\* answer not-found, leave the registry as it was and touch no backend.
C9_UnknownTargetUntouched ==
    [][\A p \in Providers, u \in RequestUUIDs :
         ( /\ u \notin DOMAIN targets[p]
           /\ RemoveTargetRPC(p, u) \/ DestroyTargetRPC(p, u) )
         => /\ resp'.op \in {"remove_target", "destroy_target"}
            /\ resp'.res = Err(ErrNotFound)
            /\ targets' = targets
            /\ objs' = objs]_vars

\* C9, its case: destroy_target answered not-found while the provider had
\* a target (under another UUID, or at the other provider).
C9_Witness ==
    /\ resp = Return("destroy_target", Err(ErrNotFound))
    /\ \E p \in Providers : DOMAIN targets[p] # {}

C6_ExactlyOneResponse ==
    [][IF \/ \A h \in Tasks : tasks'[h].pc = tasks[h].pc
          \/ \E h \in Tasks : tasks[h].pc # "idle" /\ tasks'[h].pc = "idle"
       THEN resp'.n = 1
       ELSE resp' = resp]_vars

\* C6, its case: a handler left by an exception and its response was sent.
C6_Witness ==
    /\ resp.op \in BulkOps
    /\ resp.n = 1
    /\ resp.res.ok
    /\ ~resp.done

\* C7 (as stated): a response that says success comes from a handler that
\* carried its operation out.
C7_FailuresCaptured ==
    (resp.n = 1 /\ resp.res.ok) => resp.done

\* C10: a data-plane handler or migrateTargetRPC whose FIND_TARGET does not
\* find the UUID answers not-found and changes nothing: no registry, no
\* backend, and no handler goes on to call one.
C10_UnknownTarget ==
    [][\A h \in Tasks, u \in RequestUUIDs :
         u \notin DOMAIN targets[Source]
         => /\ \A op \in DataOps, rid \in RequestRegions :
                 DataLookup(h, op, Source, u, rid)
                 => /\ resp' = Return(op, Err(ErrNotFound))
                    /\ UNCHANGED <<targets, tms, objs, tasks>>
            /\ MigrateFindTarget(h, Source, u, Destination)
                 => /\ resp' = Return("migrate_target", Err(ErrNotFound))
                    /\ UNCHANGED <<targets, tms, objs, tasks>>]_vars

\* C10, its case: a data-plane handler answered not-found while the
\* provider had a target.
C10_Witness ==
    /\ resp.op \in DataOps
    /\ resp.res = Err(ErrNotFound)
    /\ DOMAIN targets[Source] # {}

\* C11: every registered target is bound to the name of a transfer manager
\* registered at the same provider, and add_target that names a transfer
\* manager the provider does not have answers an error and registers
\* nothing.
C11_BoundToRegistered ==
    /\ [](\A p \in DOMAIN tms : \A u \in DOMAIN targets[p] :
            targets[p][u].tm \in DOMAIN tms[p])
    /\ [][\A p \in DOMAIN tms, config \in {"{}", "{\"transfer_manager\":\"tmA\"}"} :
            ( /\ JsonValue(JsonParse(config).value, "transfer_manager", DefaultTM)
                    \notin DOMAIN tms[p]
              /\ AddTargetRPC(p, "memory", config) )
            => /\ resp'.op = "add_target"
               /\ ~resp'.res.ok
               /\ targets' = targets
               /\ objs' = objs]_vars

\* C11, its case: the after-callback of a migration has just installed a
\* target at the destination, bound to a transfer manager other than the
\* default one.
C11_Witness ==
    \E h \in Tasks :
      /\ tasks[h].pc = "status"
      /\ tasks[h].res.val = 0
      /\ tasks[h].dest # tasks[h].p
      /\ tasks[h].u \in DOMAIN targets[tasks[h].dest]
      /\ targets[tasks[h].dest][tasks[h].u].tm = "tmA"

\* C12: add_transfer_manager with a name the provider already has answers
\* an error and changes neither registry nor any backend; and no step of
\* any handler takes a transfer manager out of a registry or changes its
\* type, so that of two requests for one name the second finds the name
\* taken.
C12_NamesUnique ==
    [][/\ \A p \in DOMAIN tms, name \in TMNames, type \in TMTypes :
            (name \in DOMAIN tms[p] /\ AddTransferManagerRPC(p, name, type, "{}"))
            => /\ resp'.op = "add_transfer_manager"
               /\ ~resp'.res.ok
               /\ ValidateTransferManagerConfig(type, EmptyJSON) => resp'.res.err = ErrTMExists
               /\ tms' = tms
               /\ targets' = targets
               /\ objs' = objs
       /\ \A p \in DOMAIN tms : \A name \in DOMAIN tms[p] :
            name \in DOMAIN tms'[p] /\ tms'[p][name] = tms[p][name]]_vars

\* C12, its case: add_transfer_manager has been refused for a name that is
\* taken by a manager some target is bound to.
C12_Witness ==
    /\ resp = Return("add_transfer_manager", Err(ErrTMExists))
    /\ \E p \in DOMAIN tms : \E u \in DOMAIN targets[p] :
         /\ targets[p][u].tm = "tmA"
         /\ "tmA" \in DOMAIN tms[p]

\* C13: an add_target that answers success returns a UUID that no registry
\* holds, adds exactly that entry to the provider's registry and leaves
\* every entry and backend that was registered as it was; so after N
\* successful add_target without removal the registry holds N targets under
\* N distinct UUIDs.
C13_RegistrationUnique ==
    [][\A p \in Providers, type \in TargetTypes, config \in ConfigStrings :
         (AddTargetRPC(p, type, config) /\ resp'.res.ok)
         => LET id == resp'.res.val IN
            /\ \A q \in Providers : id \notin DOMAIN targets[q]
            /\ DOMAIN targets'[p] = DOMAIN targets[p] \cup {id}
            /\ Cardinality(DOMAIN targets'[p]) = Cardinality(DOMAIN targets[p]) + 1
            /\ \A q \in Providers : \A u \in DOMAIN targets[q] :
                 /\ u \in DOMAIN targets'[q]
                 /\ targets'[q][u] = targets[q][u]
                 /\ objs'[targets[q][u].obj] = objs[targets[q][u].obj]]_vars

\* C13, its case: the second add_target of a provider has answered success
\* and the provider holds two targets.
C13_Witness ==
    /\ resp.op = "add_target"
    /\ resp.res.ok
    /\ \E p \in Providers :
         /\ resp.res.val \in DOMAIN targets[p]
         /\ Cardinality(DOMAIN targets[p]) = MaxUUID

C15_UnknownManagerFails ==
    [][\A config \in ProviderConfigs :
         ( /\ \E i \in 1..Len(config.targets) :
                JsonValue(config.targets[i].config, "transfer_manager", DefaultTM)
                  \notin DOMAIN config.transfer_managers \cup {DefaultTM}
           /\ RegisterProvider("P1", config) )
         => /\ ~resp'.res.ok
            /\ "P1" \notin DOMAIN tms']_vars

\* The multiset of the elements of a sequence.
BagOfSeq(seq) ==
    [e \in {seq[i] : i \in DOMAIN seq} |-> Cardinality({i \in DOMAIN seq : seq[i] = e})]

\* A target as getConfig describes it: its type, and its backend's
\* configuration with the name of its transfer manager written in.
Described(type, cfg, tm_name) ==
    Declaration(type, JsonUpdate(cfg, [k \in {"transfer_manager"} |-> tm_name]))

\* The targets of provider p: by type, backend configuration and transfer
\* manager; and as getConfig describes them.
TargetsOf(p) ==
    LET ids == DOMAIN targets[p]
        one(u) == [type |-> objs[targets[p][u].obj].type,
                   cfg |-> objs[targets[p][u].obj].cfg,
                   tm |-> targets[p][u].tm]
    IN [e \in {one(u) : u \in ids} |-> Cardinality({u \in ids : one(u) = e})]

DescribedTargetsOf(p) ==
    LET ids == DOMAIN targets[p]
        one(u) == Described(objs[targets[p][u].obj].type, objs[targets[p][u].obj].cfg,
                            targets[p][u].tm)
    IN [e \in {one(u) : u \in ids} |-> Cardinality({u \in ids : one(u) = e})]

C17_RemoveDestroyFrame ==
    [][\A u \in UUIDs :
         u \in DOMAIN targets[Source]
         => LET o == targets[Source][u].obj
                frame == /\ targets'[Source] = MapErase(targets[Source], u)
                         /\ tms' = tms
                         /\ \A v \in DOMAIN targets[Source] \ {u} :
                              objs'[targets[Source][v].obj] = objs[targets[Source][v].obj]
            IN /\ RemoveTargetRPC(Source, u)
                 => /\ frame
                    /\ resp' = Return("remove_target", Ok)
                    /\ \A h \in Holders(tasks, o) : objs'[tasks'[h].obj] = objs[o]
               /\ DestroyTargetRPC(Source, u)
                 => /\ frame
                    /\ resp'.op = "destroy_target"
                    /\ \A h \in Holders(tasks, o) :
                         objs'[tasks'[h].obj] =
                           [objs[o] EXCEPT !.storage = IF resp'.res.ok THEN FALSE ELSE @]]_vars

\* C17, its case: destroy_target has answered success for a target whose
\* entry a handler still holds, the backend's storage is gone, and another
\* target is still registered.
C17_Witness ==
    /\ resp = Return("destroy_target", Ok)
    /\ DOMAIN targets[Source] # {}
    /\ \E h \in Tasks :
         /\ tasks[h].obj \in {Held(k) : k \in Tasks}
         /\ ~objs[tasks[h].obj].storage

\* C18 (as stated): when migrateTargetRPC leaves with the MigrationHandle
\* in its hands, (1) after success without removeSource the registries are
\* as they were and the source backend is unlocked with its storage and
\* regions intact, and (2) the storage of the source backend is removed
\* only if removeSource was asked for and the answer is success.
C18_KeepSource ==
    [][\A h \in Tasks :
         LET t == tasks[h]
             b == objs[t.obj]
             after == objs'[t.obj]
         IN (t.op = "migrate_target" /\ t.pc \in HandleLive /\ tasks'[h].pc = "idle")
            => /\ (resp'.res.ok /\ ~t.rm)
                    => /\ targets' = targets
                       /\ \/ after = FreeObj
                          \/ /\ ~after.locked
                             /\ after.storage = b.storage
                             /\ after.regions = b.regions
               /\ (after # FreeObj /\ b.storage /\ ~after.storage)
                    => (t.rm /\ resp'.res.ok)]_vars

\* The last step of the handler op of task h, answering with a success.
Succeeds(h, op) ==
    /\ tasks[h].op = op
    /\ tasks[h].pc # "idle"
    /\ tasks'[h].pc = "idle"
    /\ resp'.op = op /\ resp'.n = 1 /\ resp'.res.ok
    /\ objs'[tasks[h].obj].st # "free"

\* What the region rid of the object o holds after the step.
ContentAfter(o, rid) == objs'[o].bytes[rid]

\* The size law of create, write_eager and create_write_eager: a created
\* region has the size asked for, bytes written over (0, |B|) are the first
\* |B| bytes of the region, a region made by create_write_eager holds
\* exactly the payload, and a read over (0, n) answers the first n bytes.
EagerLaw(h) ==
    LET t == tasks[h]
        data == t.args.data
    IN
    /\ Succeeds(h, "create") => Len(ContentAfter(t.obj, resp'.res.val)) = t.args.size
    /\ Succeeds(h, "write_eager") /\ t.args.spans = <<<<0, Len(data)>>>>
         => SubSeq(ContentAfter(t.obj, t.rid), 1, Len(data)) = data
    /\ Succeeds(h, "create_write_eager") => ContentAfter(t.obj, t.rid) = data
    /\ Succeeds(h, "read_eager") /\ Len(t.args.spans) = 1 /\ t.args.spans[1][1] = 0
         => resp'.res.data = SubSeq(objs[t.obj].bytes[t.rid], 1, t.args.spans[1][2])

\* C19: a created region has the size asked for, bytes written with
\* write_eager over (0, |B|) or with create_write_eager are the bytes a
\* read_eager over (0, |B|) returns, and every buffer read_eager returns is
\* as long as the sizes of the requested spans add up to.
C19_RegionSizeLaw ==
    [][\A h \in Tasks :
         /\ EagerLaw(h)
         /\ Succeeds(h, "read_eager")
              => Len(resp'.res.data) = SpansTotal(tasks[h].args.spans)]_vars


\* The handlers that look a region up by its id.
RegionOps == WriteOps \cup ReadOps \cup {"erase"}

\* C20: once erase succeeded on a region of a target, the region stays
\* erased as long as the backend has its storage, and every handler that
\* looks the region up afterwards (read, read_eager, write, write_eager,
\* persist, erase) answers an error, region not found while the backend
\* serves, without reaching the transfer manager or the region and without
\* changing a region of any backend.
C20_EraseFinality ==
    [][/\ \A o \in DOMAIN objs, r \in RegionIDs :
            objs[o].regions[r] = "erased" /\ objs'[o].storage
            => objs'[o].regions[r] = "erased"
       /\ \A h \in Tasks :
            LET t == tasks[h] IN
            /\ t.pc = "found" /\ t.op \in RegionOps
            /\ t.rid \in RegionIDs /\ objs[t.obj].regions[t.rid] = "erased"
            /\ tasks'[h].pc # t.pc
            => /\ tasks'[h] = IdleTask
               /\ resp'.op = t.op /\ resp'.n = 1 /\ ~resp'.res.ok
               /\ Serving(objs[t.obj]) => resp'.res = Err(ErrRegion)
               /\ objs' = Release(objs, tasks')
               /\ \A o \in DOMAIN objs :
                    objs'[o].st # "free"
                    => objs'[o].regions = objs[o].regions /\ objs'[o].bytes = objs[o].bytes]_vars

\* C20, its case: a region of a registered target was erased, and a later
\* read of that region has found the target and is about to ask the backend
\* for the region.
C20_Witness ==
    \E h \in Tasks, u \in DOMAIN targets[Source] :
        /\ tasks[h].op = "read" /\ tasks[h].pc = "found"
        /\ tasks[h].u = u /\ tasks[h].obj = targets[Source][u].obj
        /\ tasks[h].rid \in RegionIDs
        /\ objs[tasks[h].obj].regions[tasks[h].rid] = "erased"
        /\ Serving(objs[tasks[h].obj])

\* Is the next statement of task h a call of a backend (create, write,
\* read, erase, destroy, getConfig, startMigration) or of a transfer
\* manager?
InBackendCall(h) == tasks[h].pc \in {"found", "region", "backend", "start"}

\* C21 (as stated): no handler calls a backend or a transfer manager with
\* m_targets_mtx held.
C21_NoBackendCallUnderMutex ==
    \A h \in Tasks : InBackendCall(h) => TargetsMtx \notin tasks[h].held

\* C22 (as stated): at the destination, m_targets changes or is searched
\* only in a step of a task that holds m_targets_mtx, and
\* m_transfer_managers changes only in a step of a task that holds
\* m_transfer_managers_mtx; the callbacks of a migration are among these
\* steps.
C22_MapsUnderMutex ==
    [][/\ targets'[Destination] # targets[Destination]
            => \E h \in Tasks : Holds(h, Destination, TargetsMtx)
       /\ tms'[Destination] # tms[Destination]
            => \E h \in Tasks : Holds(h, Destination, TMsMtx)
       /\ \A h \in Tasks :
            tasks[h].pc = "before_targets" /\ tasks'[h].pc # "before_targets"
            => Holds(h, Destination, TargetsMtx)]_vars

\* Task h waits for a mutex that task k holds.
WaitsOn(h, k) == Waiting(h) /\ k # h /\ Holds(k, At(tasks[h]), Wanted(h))

\* A set of tasks each of which waits for a mutex another of them holds.
Deadlocked == \E S \in SUBSET Tasks \ {{}} : \A h \in S : \E k \in S : WaitsOn(h, k)

\* C23: no task gets m_targets_mtx while it holds
\* m_transfer_managers_mtx, and no set of tasks is ever waiting for the
\* registry mutexes of one another.
C23_LockOrder ==
    /\ [](~Deadlocked)
    /\ [][\A h \in Tasks :
            TargetsMtx \in tasks'[h].held /\ TargetsMtx \notin tasks[h].held
            => TMsMtx \notin tasks[h].held]_vars

\* C23, its case: a task is inside addTarget or getConfig with both
\* mutexes, and another task waits for one of them.
C23_Witness ==
    \E h, k \in Tasks :
        /\ tasks[h].held = {TargetsMtx, TMsMtx}
        /\ WaitsOn(k, h)

\* C24: when the constructor meets a declaration of a transfer manager
\* that validateTransferManagerConfig rejects, it throws without having
\* instantiated any manager or target; when it meets a declaration of a
\* target that validateTargetConfig rejects, it throws without having
\* instantiated any target; either way there is no provider.
C24_TwoPass ==
    [][\A config \in ProviderConfigs :
         RegisterProvider("P1", config) /\ config.ok /\ config.valid
         => /\ ~ValidateTransferManagers(config.transfer_managers)
                 => /\ ~resp'.res.ok /\ "P1" \notin DOMAIN tms'
                    /\ resp'.managers = {} /\ resp'.targets = 0
            /\ ~ValidateTargets(config.targets)
                 => /\ ~resp'.res.ok /\ "P1" \notin DOMAIN tms'
                    /\ resp'.targets = 0]_vars

\* C24, its case: the constructor threw in its first pass over the targets,
\* after its second pass over the transfer managers.
C24_Witness ==
    /\ resp.op = "construct" /\ ~resp.res.ok
    /\ resp.managers # {} /\ resp.targets = 0
    /\ "P1" \notin DOMAIN tms

\* The step of task h in which remi_fileset_migrate reached the
\* destination and its before-callback ran.
BeforeCallbackRan(h) ==
    tasks[h].pc = "fileset" /\ tasks'[h].pc \in {"transfer", "rejected"}

\* C25: the before-callback returns 1 when a metadata string does not
\* parse, else 2 when the merged config names a manager the destination
\* does not have, else 3 when the UUID is registered there, else 4 when the
\* factory rejects the merged config, else 0; and it leaves the registries
\* of the destination as they are.
C25_BeforeCallbackCodes ==
    [][\A h \in Tasks, extraConfig \in MigrationConfigs :
         MigrateIssue(h, extraConfig) /\ BeforeCallbackRan(h)
         => LET t == tasks[h]
                config == JsonDump(objs[t.obj].cfg)
                parsable == JsonParse(config).ok /\ JsonParse(extraConfig).ok
                merged == MergedConfig(config, extraConfig)
                manager == \/ "transfer_manager" \notin DOMAIN merged
                           \/ merged["transfer_manager"] \in DOMAIN tms[t.dest]
                fresh == t.u \notin DOMAIN targets[t.dest]
                accepted == ValidateTargetConfig(objs[t.obj].type, merged)
                code == tasks'[h].res.val
            IN /\ code = 0 <=> parsable /\ manager /\ fresh /\ accepted
               /\ code = 1 <=> ~parsable
               /\ code = 2 <=> parsable /\ ~manager
               /\ code = 3 <=> parsable /\ manager /\ ~fresh
               /\ code = 4 <=> parsable /\ manager /\ fresh /\ ~accepted
               /\ targets' = targets /\ tms' = tms]_vars

\* The same law for the migrations whose options.extraConfig is an object
\* or does not parse.
BeforeCallbackCodesOfObjects ==
    [][\A h \in Tasks, extraConfig \in MigrationConfigs \ {"[]"} :
         MigrateIssue(h, extraConfig) /\ BeforeCallbackRan(h)
         => LET t == tasks[h]
                config == JsonDump(objs[t.obj].cfg)
                parsable == JsonParse(config).ok /\ JsonParse(extraConfig).ok
                merged == MergedConfig(config, extraConfig)
                manager == \/ "transfer_manager" \notin DOMAIN merged
                           \/ merged["transfer_manager"] \in DOMAIN tms[t.dest]
                fresh == t.u \notin DOMAIN targets[t.dest]
                accepted == ValidateTargetConfig(objs[t.obj].type, merged)
                code == tasks'[h].res.val
            IN /\ code = 0 <=> parsable /\ manager /\ fresh /\ accepted
               /\ code = 1 <=> ~parsable
               /\ code = 2 <=> parsable /\ ~manager
               /\ code = 3 <=> parsable /\ manager /\ ~fresh
               /\ code = 4 <=> parsable /\ manager /\ fresh /\ ~accepted
               /\ targets' = targets /\ tms' = tms]_vars

\* The step of task h in which the after-callback of the destination ran.
AfterCallbackRan(h) == tasks[h].pc = "transfer" /\ tasks'[h].pc = "status"

\* The manager name migration_config gives, else the one config gives,
\* else __default__.
NamedManager(config, migration_config) ==
    IF "transfer_manager" \in DOMAIN migration_config
    THEN migration_config["transfer_manager"]
    ELSE IF "transfer_manager" \in DOMAIN config THEN config["transfer_manager"]
    ELSE DefaultTM

\* C26: an after-callback that returns 0 has put the recovered target (the
\* type and the regions of the source) into the destination's registry
\* under the migrated UUID, bound to the manager the merged config names
\* or to __default__, and touched no other entry; one that returns
\* non-zero has left every target registry as it was.
C26_AfterCallbackInstalls ==
    [][\A h \in Tasks :
         AfterCallbackRan(h)
         => LET t == tasks[h]
                b == objs[t.obj]
                d == t.dest
                code == tasks'[h].res.val
            IN IF code = 0
               THEN /\ t.u \in DOMAIN targets'[d]
                    /\ targets'[d][t.u].tm
                         = NamedManager(b.cfg, JsonParse(t.extra).value)
                    /\ targets'[d][t.u].tm \in DOMAIN tms[d]
                    /\ objs'[targets'[d][t.u].obj].st = "live"
                    /\ objs'[targets'[d][t.u].obj].type = b.type
                    /\ objs'[targets'[d][t.u].obj].regions = b.regions
                    /\ \A p \in Providers : \A u \in DOMAIN targets[p] :
                         <<p, u>> # <<d, t.u>>
                         => u \in DOMAIN targets'[p] /\ targets'[p][u] = targets[p][u]
                    /\ \A p \in Providers :
                         DOMAIN targets'[p] \subseteq DOMAIN targets[p] \cup {t.u}
               ELSE code \in {2, 3, 4} /\ targets' = targets]_vars

\* C26, its case: the after-callback has installed a target whose source
\* configuration names no manager under the manager migration_config
\* names.
C26_Witness ==
    \E h \in Tasks :
      /\ tasks[h].pc = "status"
      /\ tasks[h].res.val = 0
      /\ "transfer_manager" \notin DOMAIN objs[tasks[h].obj].cfg
      /\ tasks[h].u \in DOMAIN targets[tasks[h].dest]
      /\ targets[tasks[h].dest][tasks[h].u].tm = "tmA"
      /\ objs[Cell(tasks[h].dest, tasks[h].u)].regions = objs[tasks[h].obj].regions

\* The step of task h in which the after-callback of the destination
\* assigned m_targets[target_id].
Installs(h) ==
    /\ tasks[h].op = "migrate_target"
    /\ tasks[h].pc \in {"transfer", "after_recover"}
    /\ tasks'[h].pc = "status"
    /\ tasks'[h].res.val = 0
    /\ objs'[Cell(tasks[h].dest, tasks[h].u)] # objs[Cell(tasks[h].dest, tasks[h].u)]

\* C27: an after-callback assigns only a UUID the registry of the
\* destination does not hold: no entry that is there is replaced, whatever
\* else runs at the destination between the before-callback's check and
\* the assignment.
C27_NeverReplaces ==
    [][\A h \in Tasks :
         Installs(h) => tasks[h].u \notin DOMAIN targets[tasks[h].dest]]_vars

\* The data-plane handlers that have captured the entry of their target
\* and have not answered yet.
Captured == {h \in Tasks : tasks[h].op \in DataOps /\ tasks[h].pc # "idle"}

\* C28: remove_target of a registered target takes the entry out of the
\* map in the same step, so that a later lookup answers not-found; every
\* handler that had captured the entry stays where it is, with the same
\* backend, unchanged, and the same transfer manager; the backend a
\* handler has captured is never deleted before the handler answers, the
\* handler's answer is its own operation's and not a not-found, and the
\* backend is deleted when the last such handler has answered.
C28_RemoveKeepsCaptured ==
    /\ [](\A h \in Captured : objs[tasks[h].obj].st # "free")
    /\ [][\A u \in UUIDs :
            RemoveTargetRPC(Source, u) /\ FindTarget(Source, u)
            => /\ u \notin DOMAIN targets'[Source]
               /\ resp' = Return("remove_target", Ok)
               /\ \A h \in Captured :
                    /\ tasks'[h] = [tasks[h] EXCEPT !.obj = tasks'[h].obj]
                    /\ objs'[tasks'[h].obj] = objs[tasks[h].obj]]_vars
    /\ [][\A h \in Tasks, op \in DataOps, u \in UUIDs, rid \in RegionIDs :
            DataLookup(h, op, Source, u, rid) /\ ~FindTarget(Source, u)
            => resp' = Return(op, Err(ErrNotFound)) /\ tasks' = tasks]_vars
    /\ [][\A h \in Captured :
            tasks[h].obj = Held(tasks[h].obj[2]) /\ tasks'[h].pc = "idle"
            => /\ resp'.op = tasks[h].op
               /\ resp'.n = 1
               /\ resp'.res.err # ErrNotFound
               /\ Holders(tasks', tasks[h].obj) = {}
                    => objs'[tasks[h].obj].st = "free"]_vars

\* C28, its case: a handler is at work on a backend that remove_target has
\* taken out of the registry since the handler captured it.
C28_Witness ==
    \E h \in Captured :
      /\ tasks[h].obj = Held(tasks[h].obj[2])
      /\ ~FindTarget(tasks[h].p, tasks[h].u)
      /\ objs[tasks[h].obj].st = "live"
      /\ objs[tasks[h].obj].storage

\* C29: whichever way a migrate_target handler that holds a
\* MigrationHandle leaves (a REMI error, a rejection, a non-zero status,
\* success), the step that sends its one response leaves the source
\* target unfrozen, committed or rolled back; so a target is frozen only
\* while a migrate_target handler that has not answered yet holds its
\* handle.
C29_HandleBeforeResponse ==
    /\ [](\A a \in Heap :
            objs[a].locked
            => \E h \in Tasks : tasks[h].pc \in HandleLive /\ tasks[h].obj = a)
    /\ [][\A h \in Tasks :
            tasks[h].pc \in HandleLive /\ tasks'[h].pc = "idle"
            => /\ resp'.op = "migrate_target"
               /\ resp'.n = 1
               /\ ~objs'[tasks[h].obj].locked
               /\ objs'[tasks[h].obj].st \in {"free", "migrated"}
                    \/ (resp'.res.err = ErrStatus /\ objs'[tasks[h].obj] =
                          [objs[tasks[h].obj] EXCEPT !.locked = FALSE])]_vars

\* C29, its case: migrate_target has answered, the source target is still
\* registered, and it is not frozen.
C29_Witness ==
    /\ resp.op = "migrate_target"
    /\ resp.n = 1
    /\ \A h \in Tasks : tasks[h].pc = "idle"
    /\ \E p \in Providers : \E u \in DOMAIN targets[p] :
         /\ objs[targets[p][u].obj].st = "migrated"
         /\ ~objs[targets[p][u].obj].locked

\* The task h is a data-plane handler that waits for the backend a
\* MigrationHandle locks.
HeldBack(h) ==
    /\ tasks[h].op \in DataOps
    /\ tasks[h].pc \in {"found", "region"}
    /\ objs[tasks[h].obj].locked

\* C30: a migrate_target handler that holds a MigrationHandle eventually
\* leaves, and the handle is destroyed with it; and a region operation that
\* a migration holds back eventually answers, with its result or an error.
C30_FreezeEnds ==
    /\ \A h \in Tasks : (tasks[h].pc \in HandleLive) ~> (tasks[h].pc = "idle")
    /\ \A a \in Heap : objs[a].locked ~> ~objs[a].locked
    /\ \A h \in Tasks : HeldBack(h) ~> (tasks[h].pc = "idle")

\* C30, its case: a region operation waits for a target that a migration
\* in flight has frozen.
C30_Witness ==
    \E h, k \in Tasks :
      /\ HeldBack(h)
      /\ tasks[k].pc \in HandleLive
      /\ tasks[k].obj = tasks[h].obj

\* The step in which the remove_target or destroy_target handler of task
\* h leaves its critical section and answers.
RaceAnswers(h) ==
    /\ tasks[h].op \in RaceOps
    /\ tasks[h].pc \in {"locked", "backend"}
    /\ tasks'[h].pc = "idle"

\* C31: remove_target and destroy_target requests that race for a UUID
\* are in their critical sections one at a time; the one that finds the
\* UUID registered takes it out of the registry, and a UUID that add_target
\* has registered and that is gone never comes back, so every other request finds it gone, answers not-found and
\* touches nothing; destroy() is called only by a destroy_target that
\* found the UUID registered, in the step that takes it out, so at most
\* once, and a remove_target leaves the backend's storage alone.
C31_OneWinner ==
    /\ [](\A h, k \in Tasks :
            (h # k /\ tasks[h].op \in RaceOps /\ tasks[k].op \in RaceOps
               /\ tasks[h].p = tasks[k].p)
            => ~(TargetsMtx \in tasks[h].held /\ TargetsMtx \in tasks[k].held))
    /\ [](\A h \in Tasks :
            tasks[h].op = "destroy_target" /\ tasks[h].pc = "backend"
            => FindTarget(tasks[h].p, tasks[h].u))
    /\ [][\A u \in UUIDs :
            ( /\ u < nextUUID
              /\ ~FindTarget(Destination, u)
              /\ \A k \in Tasks : ~(tasks[k].op = "add_target" /\ tasks[k].u = u) )
            => ~FindTarget(Destination, u)']_vars
    /\ [][\A h \in Tasks :
            RaceAnswers(h)
            => LET t == tasks[h] IN
               IF FindTarget(t.p, t.u)
               THEN /\ t.u \notin DOMAIN targets'[t.p]
                    /\ resp'.op = t.op
                    /\ resp'.res.err # ErrNotFound
                    /\ t.op = "remove_target"
                         => /\ t.pc = "locked"
                            /\ resp'.res.ok
                            /\ \A a \in Heap : objs[a].st # "free"
                                 => \E c \in Heap : objs'[c] = objs[a] \/ objs'[a] = FreeObj
                    /\ t.op = "destroy_target" => t.pc = "backend"
               ELSE /\ resp' = Return(t.op, Err(ErrNotFound))
                    /\ t.pc = "locked"
                    /\ targets' = targets
                    /\ objs' = objs]_vars

\* C31, its case: a destroy_target that found the UUID registered is about
\* to call destroy() under the mutex while a remove_target of the same
\* UUID waits for the mutex.
C31_Witness ==
    \E h, k \in Tasks :
      /\ tasks[h].op = "destroy_target" /\ tasks[h].pc = "backend"
      /\ tasks[k].op = "remove_target" /\ tasks[k].pc = "lock"
      /\ tasks[h].p = tasks[k].p /\ tasks[h].u = tasks[k].u
      /\ FindTarget(tasks[h].p, tasks[h].u)

CreateWriteOps == {"create_write", "create_write_eager"}

\* The backend task h works on, after a step in which the handler may have
\* let go of it: it is as b says, or deleted with its last reference.
BackendStays(h, b) ==
    objs'[tasks[h].obj].st = "free" \/ objs'[tasks[h].obj] = b

\* C33: in create_write and create_write_eager, a create that fails ends
\* the handler with an error, without a write and with no region added; a
\* create that succeeds adds one fresh region and the handler goes on to
\* the write with that region's id as its result; when the write then
\* fails, the handler answers the write's error and the region stays as
\* create left it; a response that reports the operation done comes with
\* the region written.
C33_CreateWriteNotAtomic ==
    /\ [][\A h \in Tasks :
            ( /\ tasks[h].op \in CreateWriteOps
              /\ tasks[h].pc = "found"
              /\ tasks'[h].pc # "found" )
            => LET t == tasks[h]
                   b == objs[t.obj]
               IN IF tasks'[h].pc = "region"
                  THEN /\ b.regions[tasks'[h].rid] = "none"
                       /\ objs'[t.obj].regions =
                            [b.regions EXCEPT ![tasks'[h].rid] = "fresh"]
                       /\ tasks'[h].res = OkVal(tasks'[h].rid)
                       /\ resp' = resp
                  ELSE /\ tasks'[h].pc = "idle"
                       /\ resp'.op = t.op
                       /\ resp'.n = 1
                       /\ resp'.res = Err(ErrBackend)
                       /\ BackendStays(h, b)]_vars
    /\ [][\A h \in Tasks :
            ( /\ tasks[h].op \in CreateWriteOps
              /\ tasks[h].pc = "region"
              /\ tasks'[h].pc = "idle" )
            => LET t == tasks[h]
                   b == objs[t.obj]
               IN /\ resp'.op = t.op
                  /\ ~resp'.res.ok
                       => /\ resp'.n = 1
                          /\ resp'.res.err \in {ErrTransfer, ErrBackend}
                          /\ BackendStays(h, b)
                  /\ resp'.done
                       => /\ resp'.res = OkVal(t.rid)
                          /\ BackendStays(h, [b EXCEPT !.regions[t.rid] = "written",
                                                       !.bytes[t.rid] = objs'[t.obj].bytes[t.rid]])]_vars

\* C33, its case: create_write has answered the error of the pull and
\* the target holds the region that was created and never written.
C33_Witness ==
    /\ resp.op = "create_write"
    /\ resp.res = Err(ErrTransfer)
    /\ \A h \in Tasks : tasks[h].pc = "idle"
    /\ \E u \in DOMAIN targets[Source] : \E r \in RegionIDs :
         /\ objs[targets[Source][u].obj].regions[r] = "fresh"
         /\ Serving(objs[targets[Source][u].obj])

====
